---- MODULE Spec2Model ----
(***************************************************************************)
(* universal-silabs-flasher: the Flasher orchestrator (probe_app_type,     *)
(* enter_bootloader, flash_firmware), the `flash` command's policy, the    *)
(* XMODEM-CRC sender and the CPC / Spinel request-response clients.        *)
(*                                                                         *)
(* Python's None is the string "None"; baud rates and versions are strings *)
(* so that they compare with it.  A device is modelled by what it can      *)
(* answer: every await that waits for the device draws its outcome from    *)
(* the outcomes the code distinguishes.                                    *)
(***************************************************************************)
EXTENDS Integers, Sequences, FiniteSets, TLC

VARIABLES
    \* Flasher fields (flasher.py:85-92)
    probe_methods, baudrates,
    app_type, app_version, app_baudrate, bootloader_baudrate,
    \* the frame of a running probe_app_type / enter_bootloader call
    probe, eb,
    \* the frame of the running `flash` command
    cmd,
    \* what the calls did to the device (history)
    hist,
    \* the frame of a running send_xmodem128_crc, the transport it writes to,
    \* and what was written and read so far (history)
    xm, transport, xlog,
    \* a CPCProtocol or SpinelProtocol object, the frame of a running
    \* send_unnumbered_frame / send_frame, and what was sent and received (history)
    client, call, rlog,
    \* the frame of a running connect_protocol / connect_ezsp context manager
    \* and the serial connections the Flasher holds open
    conn,
    \* a GeckoBootloaderProtocol object, the frame of a running probe /
    \* run_firmware / upload_firmware, and what the device and the client sent
    \* (history)
    gecko, gk, glog,
    \* a StateMachine object, the tasks that call wait_for_state, and the last
    \* assignment to its state (history)
    sm, tasks, smlog,
    \* a call of one of the pure functions: its name, arguments and result
    calc,
    \* a protocol object that is fed a byte stream through data_received: the
    \* stream, its bytes not yet received, the receive buffer, the frames
    \* handed to frame_received
    rx

orchVars == <<probe_methods, baudrates, app_type, app_version, app_baudrate,
              bootloader_baudrate, probe, eb, cmd, hist>>

xmodemVars == <<xm, transport, xlog>>

reqVars == <<client, call, rlog>>

connVars == <<conn>>

geckoVars == <<gecko, gk, glog>>

smVars == <<sm, tasks, smlog>>

calcVars == <<calc>>

rxVars == <<rx>>

vars == <<orchVars, xmodemVars, reqVars, connVars, geckoVars, smVars, calcVars, rxVars>>

-----------------------------------------------------------------------------
(* Bounds *)

\* longest baud-rate list configured for one probe method
MaxBauds == 2

\* send_xmodem128_crc: the longest image, in blocks (past the wrap of the
\* block number), and the largest max_failures
MaxBlocks == 257

MaxFailures == 2

\* send_xmodem128_crc: the most bytes the device sends that the reader has not
\* consumed yet
MaxUnread == 1

\* send_unnumbered_frame / send_frame: the largest `retries` (the default is
\* 3), and the number of requests made on one protocol object
MaxRetries == 3

MaxRequests == 2

\* the number of connections the Flasher opens, one after the other
MaxConnections == 3

\* GeckoBootloaderProtocol: the number of calls made on one object, and the
\* longest buffer of unparsed device output, in tokens
MaxGeckoCalls == 2

MaxBuffer == 4

\* tasks that use one StateMachine
MaxTasks == 2

\* longest list and longest list of elements given to put_first
MaxList == 4

MaxElements == 2

\* longest payload of an HDLC-Lite frame, in bytes, the test frames apart
MaxPayload == 2

\* packed integers: every value up to this one is serialized
MaxValue == 130

\* received streams: the frames or pieces of noise a stream is made of
MaxPieces == 2

-----------------------------------------------------------------------------
(* const.py *)

None == "None"

GECKO_BOOTLOADER == "GECKO_BOOTLOADER"
CPC == "CPC"
EZSP == "EZSP"
SPINEL == "SPINEL"

ApplicationType == {GECKO_BOOTLOADER, CPC, EZSP, SPINEL}

FirmwareImageType ==
    {"ZIGBEE_NCP", "OPENTHREAD_RCP", "ZWAVE_NCP", "BOOTLOADER", "MULTIPAN", "UNKNOWN"}

\* the keys of the mapping; a lookup of any other image type raises KeyError
FwImageTypesWithApplication == {"ZIGBEE_NCP", "MULTIPAN", "OPENTHREAD_RCP", "BOOTLOADER"}

FW_IMAGE_TYPE_TO_APPLICATION_TYPE(t) ==
    CASE t = "ZIGBEE_NCP" -> EZSP
      [] t = "MULTIPAN" -> CPC
      [] t = "OPENTHREAD_RCP" -> SPINEL
      [] t = "BOOTLOADER" -> GECKO_BOOTLOADER

\* the legacy image-type names flash.py still uses, as const.py remaps them
LEGACY_FIRMWARE_TYPE_REMAPPING(name) ==
    CASE name = "ncp-uart-hw" -> "ZIGBEE_NCP"
      [] name = "ncp-uart-sw" -> "ZIGBEE_NCP"
      [] name = "rcp-uart-802154" -> "MULTIPAN"
      [] name = "ot-rcp" -> "OPENTHREAD_RCP"
      [] name = "z-wave" -> "ZWAVE_NCP"
      [] name = "gecko-bootloader" -> "BOOTLOADER"

\* DEFAULT_BAUDRATES[CPC], the longest default list
DefaultCpcBauds == <<"460800", "115200", "230400">>

Bauds == {DefaultCpcBauds[i] : i \in 1..3}

-----------------------------------------------------------------------------
(* common.py: Version *)

\* _SEPARATORS_REGEX.split (line 251) on the version strings the model uses:
\* the parts between separators, and the separators themselves
Split(s) ==
    CASE s = "1" ->
           << "1" >>
      [] s = "1.2" ->
           << "1", ".", "2" >>
      [] s = "1.3" ->
           << "1", ".", "3" >>
      [] s = "1.2-a" ->
           << "1", ".", "2", "-", "a" >>
      [] s = "2.00.01" ->
           << "2", ".", "00", ".", "01" >>
      [] s = "2.0.1" ->
           << "2", ".", "0", ".", "1" >>
      [] s = "2.00.00" ->
           << "2", ".", "00", ".", "00" >>
      [] s = "2.10.01" ->
           << "2", ".", "10", ".", "01" >>
      [] s = "7.2.2.0" ->
           << "7", ".", "2", ".", "2", ".", "0" >>
      [] s = "7.2.2.0 build 190" ->
           << "7", ".", "2", ".", "2", ".", "0", " build ", "190" >>
      [] s = "7.2.2.0 build 191" ->
           << "7", ".", "2", ".", "2", ".", "0", " build ", "191" >>
      [] s = "SL-OPENTHREAD/2.2.2.0_GitHub-91fa1f455" ->
           << "SL", "-", "OPENTHREAD", "/",
              "2", ".", "2", ".", "2", ".", "0", "_", "GitHub", "-", "91fa1f455" >>
      [] s = "SL-OPENTHREAD/2.2.2.0_GitHub-asdfoo" ->
           << "SL", "-", "OPENTHREAD", "/",
              "2", ".", "2", ".", "2", ".", "0", "_", "GitHub", "-", "asdfoo" >>
      [] s = "SL-OPENTHREAD/2.2.2.1_GitHub-91fa1f455" ->
           << "SL", "-", "OPENTHREAD", "/",
              "2", ".", "2", ".", "2", ".", "1", "_", "GitHub", "-", "91fa1f455" >>
      [] s = "4.4.0-2546d625-dirty-676fdb09" ->
           << "4", ".", "4", ".", "0", "-", "2546d625", "-", "dirty", "-", "676fdb09" >>
      [] s = "" ->
           << "" >>

\* the parts for which str.isdigit (line 252) holds, and int() of each (line 254)
DigitStrings == { "0", "00", "01", "1", "2", "3", "4", "7", "10", "190", "191" }

IntOf(digits) ==
    CASE digits = "0" -> 0
      [] digits = "00" -> 0
      [] digits = "01" -> 1
      [] digits = "1" -> 1
      [] digits = "2" -> 2
      [] digits = "3" -> 3
      [] digits = "4" -> 4
      [] digits = "7" -> 7
      [] digits = "10" -> 10
      [] digits = "190" -> 190
      [] digits = "191" -> 191

\* Version.__init__ (lines 243-258): a part of digits becomes a comparable
\* component holding its integer, any other part a non-comparable one
Version(s) ==
    [i \in 1..Len(Split(s)) |->
       IF Split(s)[i] \in DigitStrings
       THEN [comparable |-> TRUE, num |-> IntOf(Split(s)[i]), str |-> ""]
       ELSE [comparable |-> FALSE, num |-> 0, str |-> Split(s)[i]]]

\* the version strings of the tests and of the comments in Version.__init__,
\* the model's own, and the empty string
TestVersionStrings ==
    { "1",
      "1.2",
      "1.3",
      "1.2-a",
      "2.00.01",
      "2.0.1",
      "2.00.00",
      "2.10.01",
      "7.2.2.0",
      "7.2.2.0 build 190",
      "7.2.2.0 build 191",
      "SL-OPENTHREAD/2.2.2.0_GitHub-91fa1f455",
      "SL-OPENTHREAD/2.2.2.0_GitHub-asdfoo",
      "SL-OPENTHREAD/2.2.2.1_GitHub-91fa1f455",
      "4.4.0-2546d625-dirty-676fdb09",
      "" }

VersionStrings == {"1", "1.2", "1.3", "1.2-a"}

RECURSIVE SelectComparable(_)
SelectComparable(cs) ==
    IF cs = <<>> THEN <<>>
    ELSE IF Head(cs).comparable
         THEN <<Head(cs).num>> \o SelectComparable(Tail(cs))
         ELSE SelectComparable(Tail(cs))

comparable_components(v) == SelectComparable(Version(v))

Min(a, b) == IF a <= b THEN a ELSE b

\* versions taken for compatible only when all comparable components agree
SameComparable(a, b) == comparable_components(a) = comparable_components(b)

compatible_with(a, b) ==
    LET ours == comparable_components(a)
        theirs == comparable_components(b)
        prefix_length == Min(Len(ours), Len(theirs))
    IN  SubSeq(ours, 1, prefix_length) = SubSeq(theirs, 1, prefix_length)

VersionEq(a, b) == Version(a) = Version(b)

\* Python's tuple order on the comparable components
RECURSIVE TupleLt(_, _)
TupleLt(x, y) ==
    IF x = <<>> THEN y # <<>>
    ELSE IF y = <<>> THEN FALSE
    ELSE IF Head(x) # Head(y) THEN Head(x) < Head(y)
    ELSE TupleLt(Tail(x), Tail(y))

VersionLt(a, b) == TupleLt(comparable_components(a), comparable_components(b))

\* functools.total_ordering derives __gt__ from __lt__ and __eq__
VersionGt(a, b) == ~VersionLt(a, b) /\ ~VersionEq(a, b)

-----------------------------------------------------------------------------
(* flasher.py: probe_app_type *)

\* ProbeResult, and the `bootloader_probe = None` of line 200
NoProbe == [set |-> FALSE, version |-> None, baudrate |-> None, continue_probing |-> FALSE]

ProbeResult(version, baudrate, continue_probing) ==
    [set |-> TRUE, version |-> version, baudrate |-> baudrate,
     continue_probing |-> continue_probing]

\* the generator of lines 215-217: for m in types, for b in baudrates[m];
\* an element is <<position in types, position in baudrates[m]>>
RECURSIVE PairsFrom(_, _, _)
PairsFrom(types, br, mi) ==
    IF mi > Len(types) THEN <<>>
    ELSE [bi \in 1..Len(br[types[mi]]) |-> <<mi, bi>>] \o PairsFrom(types, br, mi + 1)

RECURSIVE ReverseSeq(_)
ReverseSeq(q) == IF q = <<>> THEN <<>> ELSE Append(ReverseSeq(Tail(q)), Head(q))

\* the pairs walked from the last to the first
PairsBackwards(types, br) == ReverseSeq(PairsFrom(types, br, 1))

Pairs(types, br) == PairsFrom(types, br, 1)

PairMethod(types, p) == types[p[1]]
PairBaud(types, br, p) == br[types[p[1]]][p[2]]

\* the comparison of line 203 never true
NeverOnlyBootloader(types) == FALSE

\* line 203
only_probe_bootloader(types) == types = <<GECKO_BOOTLOADER>>

\* NoFirmwareError not told apart from a launched application
ContinueWhateverLaunch(launch, run_firmware) == run_firmware

\* probe_gecko_bootloader's continue_probing (lines 141-153): False after
\* NoFirmwareError, else run_firmware
GeckoContinueProbing(launch, run_firmware) ==
    IF launch = "no_firmware" THEN FALSE ELSE run_firmware

\* the versions a device reports
DeviceVersions == {"1.2", "1.3"}

IdleProbe ==
    [pc |-> "idle", types |-> <<>>, yellow_gpio_reset |-> FALSE, sonoff_reset |-> FALSE,
     bootloader_probe |-> NoProbe, idx |-> 0, caller |-> None, error |-> None]

\* lines 192-200: the call, the hardware reset when one is requested
ProbeCall(types, yellow, sonoff, caller) ==
    [pc |-> "loop", types |-> types, yellow_gpio_reset |-> yellow,
     sonoff_reset |-> sonoff, bootloader_probe |-> NoProbe, idx |-> 0,
     caller |-> caller, error |-> None]

\* lines 195-198: enter_yellow_bootloader, else enter_sonoff_bootloader
ResetOnCall(h, yellow, sonoff) ==
    [h EXCEPT !.attempts = <<>>,
              !.resets = IF yellow \/ sonoff THEN 1 ELSE 0,
              !.probe_calls = @ + 1,
              !.probe_entry = <<app_type, app_version, app_baudrate>>]

\* the three fields assigned before continue_probing is looked at
RecordBeforeContinue(method, result) ==
    LET bp == IF method = GECKO_BOOTLOADER THEN result ELSE probe.bootloader_probe
    IN  /\ bootloader_baudrate' =
              IF method = GECKO_BOOTLOADER THEN result.baudrate ELSE bootloader_baudrate
        /\ app_type' = method
        /\ app_version' = result.version
        /\ app_baudrate' = result.baudrate
        /\ probe' = IF result.continue_probing
                    THEN [probe EXCEPT !.bootloader_probe = bp, !.idx = @ + 1]
                    ELSE [probe EXCEPT !.bootloader_probe = bp, !.pc = "returned"]

\* lines 233-245, after a probe returned `result`
ProbeRecord(method, result) ==
    LET bp == IF method = GECKO_BOOTLOADER THEN result ELSE probe.bootloader_probe
    IN  /\ bootloader_baudrate' =
              IF method = GECKO_BOOTLOADER THEN result.baudrate ELSE bootloader_baudrate
        /\ IF result.continue_probing
           THEN /\ probe' = [probe EXCEPT !.bootloader_probe = bp, !.idx = @ + 1]
                /\ UNCHANGED <<app_type, app_version, app_baudrate>>
           ELSE /\ probe' = [probe EXCEPT !.bootloader_probe = bp, !.pc = "returned"]
                /\ app_type' = method
                /\ app_version' = result.version
                /\ app_baudrate' = result.baudrate

Attempt(p, method, baud, outcome, version) ==
    [mi |-> p[1], bi |-> p[2], method |-> method, baud |-> baud,
     outcome |-> outcome, version |-> version]

\* lines 218-224: the bootloader is not probed twice
ProbeSkip ==
    /\ probe.pc = "loop"
    /\ probe.idx < Len(Pairs(probe.types, baudrates))
    /\ PairMethod(probe.types, Pairs(probe.types, baudrates)[probe.idx + 1]) = GECKO_BOOTLOADER
    /\ probe.bootloader_probe.set
    /\ probe' = [probe EXCEPT !.idx = @ + 1]
    /\ UNCHANGED <<probe_methods, baudrates, app_type, app_version, app_baudrate,
                   bootloader_baudrate, eb, cmd, hist>>
    /\ UNCHANGED <<xmodemVars, reqVars, connVars, geckoVars, smVars, calcVars, rxVars>>

\* lines 228-231: the connection or the probe timed out
ProbeTimeout ==
    /\ probe.pc = "loop"
    /\ probe.idx < Len(Pairs(probe.types, baudrates))
    /\ LET p == Pairs(probe.types, baudrates)[probe.idx + 1]
           method == PairMethod(probe.types, p)
           baud == PairBaud(probe.types, baudrates, p)
       IN  /\ ~(method = GECKO_BOOTLOADER /\ probe.bootloader_probe.set)
           /\ probe' = [probe EXCEPT !.idx = @ + 1]
           /\ hist' = [hist EXCEPT !.attempts =
                           Append(@, Attempt(p, method, baud, "timeout", None))]
    /\ UNCHANGED <<probe_methods, baudrates, app_type, app_version, app_baudrate,
                   bootloader_baudrate, eb, cmd>>
    /\ UNCHANGED <<xmodemVars, reqVars, connVars, geckoVars, smVars, calcVars, rxVars>>

\* probe_gecko_bootloader (lines 131-153): the menu answered with `version`;
\* with run_firmware the run option is selected and the application starts
\* ("launched") or the menu comes back ("no_firmware", NoFirmwareError)
ProbeGeckoBootloader ==
    /\ probe.pc = "loop"
    /\ probe.idx < Len(Pairs(probe.types, baudrates))
    /\ LET p == Pairs(probe.types, baudrates)[probe.idx + 1]
           method == PairMethod(probe.types, p)
           baud == PairBaud(probe.types, baudrates, p)
           run_firmware == ~only_probe_bootloader(probe.types)
       IN  /\ method = GECKO_BOOTLOADER
           /\ ~probe.bootloader_probe.set
           /\ \E version \in DeviceVersions :
              \E launch \in IF run_firmware THEN {"launched", "no_firmware"} ELSE {"not_run"} :
                /\ hist' = [hist EXCEPT
                       !.attempts = Append(@, Attempt(p, method, baud, launch, version)),
                       !.run_selected = @ \/ run_firmware]
                /\ ProbeRecord(method,
                       ProbeResult(version, baud,
                           GeckoContinueProbing(launch, run_firmware)))
    /\ UNCHANGED <<probe_methods, baudrates, eb, cmd>>
    /\ UNCHANGED <<xmodemVars, reqVars, connVars, geckoVars, smVars, calcVars, rxVars>>

\* probe_cpc, probe_ezsp, probe_spinel (lines 155-183): the application answered
ProbeApplication ==
    /\ probe.pc = "loop"
    /\ probe.idx < Len(Pairs(probe.types, baudrates))
    /\ LET p == Pairs(probe.types, baudrates)[probe.idx + 1]
           method == PairMethod(probe.types, p)
           baud == PairBaud(probe.types, baudrates, p)
       IN  /\ method # GECKO_BOOTLOADER
           /\ \E version \in DeviceVersions :
                /\ hist' = [hist EXCEPT
                       !.attempts = Append(@, Attempt(p, method, baud, "version", version))]
                /\ ProbeRecord(method, ProbeResult(version, baud, FALSE))
    /\ UNCHANGED <<probe_methods, baudrates, eb, cmd>>
    /\ UNCHANGED <<xmodemVars, reqVars, connVars, geckoVars, smVars, calcVars, rxVars>>

\* the fallback taken without a reset having been requested
FallBackWithoutReset(bootloader_probe, yellow, sonoff) == bootloader_probe.set

\* line 247
CanFallBack(bootloader_probe, yellow, sonoff) == bootloader_probe.set /\ (yellow \/ sonoff)

\* lines 246-259: no pair is left; the reset is asserted again and the recorded
\* bootloader probe stands for the application
ProbeFallback ==
    /\ probe.pc = "loop"
    /\ probe.idx = Len(Pairs(probe.types, baudrates))
    /\ CanFallBack(probe.bootloader_probe, probe.yellow_gpio_reset, probe.sonoff_reset)
    /\ hist' = [hist EXCEPT !.resets = @ + 1]
    /\ app_type' = GECKO_BOOTLOADER
    /\ app_version' = probe.bootloader_probe.version
    /\ app_baudrate' = probe.bootloader_probe.baudrate
    /\ bootloader_baudrate' = probe.bootloader_probe.baudrate
    /\ probe' = [probe EXCEPT !.pc = "returned"]
    /\ UNCHANGED <<probe_methods, baudrates, eb, cmd>>
    /\ UNCHANGED <<xmodemVars, reqVars, connVars, geckoVars, smVars, calcVars, rxVars>>

\* lines 260-261
ProbeNoRunningApp ==
    /\ probe.pc = "loop"
    /\ probe.idx = Len(Pairs(probe.types, baudrates))
    /\ ~CanFallBack(probe.bootloader_probe, probe.yellow_gpio_reset, probe.sonoff_reset)
    /\ probe' = [probe EXCEPT !.pc = "raised", !.error = "NoRunningApp"]
    /\ UNCHANGED <<probe_methods, baudrates, app_type, app_version, app_baudrate,
                   bootloader_baudrate, eb, cmd, hist>>
    /\ UNCHANGED <<xmodemVars, reqVars, connVars, geckoVars, smVars, calcVars, rxVars>>

ProbeStep ==
    \/ ProbeSkip
    \/ ProbeTimeout
    \/ ProbeGeckoBootloader
    \/ ProbeApplication
    \/ ProbeFallback
    \/ ProbeNoRunningApp

-----------------------------------------------------------------------------
(* flasher.py: enter_bootloader *)

IdleEb == [pc |-> "idle", caller |-> None, error |-> None]

\* lines 271-273: with no application type known, probe first
EnterBootloaderCall(caller) ==
    [pc |-> IF app_type = None THEN "call_probe" ELSE "dispatch",
     caller |-> caller, error |-> None]

\* the history of one enter_bootloader call starts empty
EnterHist(h) ==
    [h EXCEPT !.eb_calls = @ + 1, !.run_selected = FALSE, !.baud_probe = FALSE,
              !.attempts = <<>>, !.resets = 0, !.entered = None, !.enter_outcome = None, !.enter_sent = None,
              !.probe_calls = 0,
              !.entry_app_type = app_type,
              !.entry_bootloader_baudrate = bootloader_baudrate]

EbCallProbe ==
    /\ eb.pc = "call_probe"
    /\ probe.pc = "idle"
    /\ probe' = ProbeCall(probe_methods, FALSE, FALSE, "enter_bootloader")
    /\ hist' = ResetOnCall(hist, FALSE, FALSE)
    /\ eb' = [eb EXCEPT !.pc = "probing"]
    /\ UNCHANGED <<probe_methods, baudrates, app_type, app_version, app_baudrate,
                   bootloader_baudrate, cmd>>
    /\ UNCHANGED <<xmodemVars, reqVars, connVars, geckoVars, smVars, calcVars, rxVars>>

\* the probe of line 273 ended: its RuntimeError is not caught
EbProbeDone ==
    /\ eb.pc = "probing"
    /\ probe.caller = "enter_bootloader"
    /\ probe.pc \in {"returned", "raised"}
    /\ eb' = IF probe.pc = "returned" THEN [eb EXCEPT !.pc = "dispatch"]
             ELSE [eb EXCEPT !.pc = "raised", !.error = probe.error]
    /\ probe' = IdleProbe
    /\ UNCHANGED <<probe_methods, baudrates, app_type, app_version, app_baudrate,
                   bootloader_baudrate, cmd, hist>>
    /\ UNCHANGED <<xmodemVars, reqVars, connVars, geckoVars, smVars, calcVars, rxVars>>

\* what the device and the connection can answer to the command of each type:
\* CPC and Spinel run under the 2-second guard, EZSP reports a status or times out
EnterOutcomes(type) ==
    CASE type = GECKO_BOOTLOADER -> {"nothing_sent"}
      [] type = CPC -> {"ok", "timeout"}
      [] type = SPINEL -> {"ok", "timeout"}
      [] type = EZSP -> {"SUCCESS", "timeout", "bad_status"}

\* lines 275-298: the command each application type is sent, None for the
\* bootloader (`pass`)
EnterCommand(type) ==
    CASE type = GECKO_BOOTLOADER -> None
      [] type = CPC -> "cpc.enter_bootloader"
      [] type = SPINEL -> "spinel.enter_bootloader"
      [] type = EZSP -> "ezsp.launchStandaloneBootloader"

\* an EZSP timeout taken for a failure, like the timeouts of CPC and Spinel
EzspTimeoutFails(type, outcome) ==
    CASE type = GECKO_BOOTLOADER -> TRUE
      [] type = CPC -> outcome = "ok"
      [] type = SPINEL -> outcome = "ok"
      [] type = EZSP -> outcome = "SUCCESS"

\* lines 275-301: does the command's outcome let enter_bootloader go on
EnterProceeds(type, outcome) ==
    CASE type = GECKO_BOOTLOADER -> TRUE
      [] type = CPC -> outcome = "ok"
      [] type = SPINEL -> outcome = "ok"
      [] type = EZSP -> outcome \in {"SUCCESS", "timeout"}

EnterError(type, outcome) ==
    IF outcome = "timeout" THEN "TimeoutError" ELSE "RuntimeError"

\* lines 275-305
EbDispatch ==
    /\ eb.pc = "dispatch"
    /\ app_type \in ApplicationType
    /\ \E outcome \in EnterOutcomes(app_type) :
        /\ hist' = [hist EXCEPT !.entered = app_type, !.enter_outcome = outcome,
                                !.enter_sent = EnterCommand(app_type)]
        /\ eb' = IF ~EnterProceeds(app_type, outcome)
                 THEN [eb EXCEPT !.pc = "raised", !.error = EnterError(app_type, outcome)]
                 ELSE IF bootloader_baudrate = None
                      THEN [eb EXCEPT !.pc = "call_baud_probe"]
                      ELSE [eb EXCEPT !.pc = "returned"]
    /\ UNCHANGED <<probe_methods, baudrates, app_type, app_version, app_baudrate,
                   bootloader_baudrate, probe, cmd>>
    /\ UNCHANGED <<xmodemVars, reqVars, connVars, geckoVars, smVars, calcVars, rxVars>>

\* lines 303-305: probe_app_type(types=[GECKO_BOOTLOADER])
EbCallBaudProbe ==
    /\ eb.pc = "call_baud_probe"
    /\ probe.pc = "idle"
    /\ probe' = ProbeCall(<<GECKO_BOOTLOADER>>, FALSE, FALSE, "bootloader_baudrate")
    /\ hist' = [ResetOnCall(hist, FALSE, FALSE) EXCEPT !.baud_probe = TRUE]
    /\ eb' = [eb EXCEPT !.pc = "baud_probing"]
    /\ UNCHANGED <<probe_methods, baudrates, app_type, app_version, app_baudrate,
                   bootloader_baudrate, cmd>>
    /\ UNCHANGED <<xmodemVars, reqVars, connVars, geckoVars, smVars, calcVars, rxVars>>

EbBaudProbeDone ==
    /\ eb.pc = "baud_probing"
    /\ probe.caller = "bootloader_baudrate"
    /\ probe.pc \in {"returned", "raised"}
    /\ eb' = IF probe.pc = "returned" THEN [eb EXCEPT !.pc = "returned"]
             ELSE [eb EXCEPT !.pc = "raised", !.error = probe.error]
    /\ probe' = IdleProbe
    /\ UNCHANGED <<probe_methods, baudrates, app_type, app_version, app_baudrate,
                   bootloader_baudrate, cmd, hist>>
    /\ UNCHANGED <<xmodemVars, reqVars, connVars, geckoVars, smVars, calcVars, rxVars>>

EbStep ==
    \/ EbCallProbe
    \/ EbProbeDone
    \/ EbDispatch
    \/ EbCallBaudProbe
    \/ EbBaudProbeDone

-----------------------------------------------------------------------------
(* xmodemcrc.py: send_xmodem128_crc.  The image is its length; a block's     *)
(* payload is the slice of the image it carries, and its CRC is determined  *)
(* by the payload.  Reading a response byte draws what the receiver sent.   *)

BLOCK_SIZE == 128

SOH == 1
EOT == 4
CAN == 24
ACK == 6
NAK == 21

\* ASCII "C"
ASCII_C == 67

\* what a receiver can answer with: the three bytes the sender knows, a late
\* "C", a byte that is none of them
ReceiverBytes == {ACK, NAK, CAN, ASCII_C, 0}

\* no byte was read: none came within RECEIVE_TIMEOUT (line 69)
NoByte == -1

\* image lengths offered: empty, one block, two, the longest, and one that
\* is not a whole number of blocks
DataLengths ==
    {0, BLOCK_SIZE, 2 * BLOCK_SIZE, MaxBlocks * BLOCK_SIZE, BLOCK_SIZE + 1}

\* XmodemCRCPacket.serialize (lines 39-46)
serialize(number, payload) == <<SOH, number, 255 - number, payload>>

\* a block numbered by its index alone
NumberWithoutOffset(index) == index % 256

\* line 122: (index + 1) & 0xFF
BlockNumber(index) == (index + 1) % 256

\* lines 121-128: the packet for the block at `index`
BlockPacket(index) ==
    serialize(BlockNumber(index), <<BLOCK_SIZE * index, BLOCK_SIZE * (index + 1)>>)

\* line 143
EotPacket == <<EOT>>

NumBlocks(data_len) == data_len \div BLOCK_SIZE

\* the packet send_xmodem128_crc_data was called with
CurrentPacket ==
    IF xm.index < NumBlocks(xm.data_len) THEN BlockPacket(xm.index) ELSE EotPacket

\* a sender that gives up one NAK early
FailsOneEarlier(attempt, max_failures) == attempt + 1 >= max_failures

\* line 79
TooManyFailures(attempt, max_failures) == attempt >= max_failures

\* the error raised for a response byte that is not ACK or a retried NAK
\* (lines 81-84), or the timeout of line 69; here CAN is one more invalid byte
CancelIsInvalid(rsp) ==
    CASE rsp = NoByte -> "TimeoutError"
      [] rsp = NAK -> "ValueError: consecutive failures"
      [] OTHER -> "ValueError: invalid response"

ResponseError(rsp) ==
    CASE rsp = NoByte -> "TimeoutError"
      [] rsp = NAK -> "ValueError: consecutive failures"
      [] rsp = CAN -> "ReceiverCancelled"
      [] OTHER -> "ValueError: invalid response"

\* `reader` is the StreamReader's buffer, `old_protocol` the local of line 107
IdleXm ==
    [pc |-> "idle", data_len |-> 0, max_failures |-> 0, has_callback |-> FALSE,
     index |-> 0, attempt |-> 0, error |-> None, reader |-> <<>>,
     old_protocol |-> None]

\* the transport with the bootloader's protocol attached; `out` is the packet
\* written and not yet answered
IdleTransport == [protocol |-> "gecko", out |-> <<>>]

\* `handed_back` is what the old protocol's data_received was called with
InitXlog ==
    [c_read |-> FALSE, acked |-> 0, tx |-> 0, naks |-> 0, last_rsp |-> NoByte,
     progress |-> <<>>, protocol_at_write |-> None, last_packet |-> <<>>,
     handed_back |-> <<>>]

\* an exit that leaves the reader's protocol on the transport
LeftSwapped(t, old_protocol) == t

\* line 160: transport.set_protocol(old_protocol)
Restored(t, old_protocol) == [t EXCEPT !.protocol = old_protocol]

\* the bytes a read can take: those buffered first, else what arrives during
\* the wait
Readable(bytes) == IF xm.reader = <<>> THEN bytes ELSE {Head(xm.reader)}

\* the reader's buffer after one byte was taken from it
Taken == IF xm.reader = <<>> THEN <<>> ELSE Tail(xm.reader)

\* a callback given the number of blocks sent instead of the byte offset
ProgressInBlocks(offset) ==
    IF xm.has_callback THEN <<offset \div BLOCK_SIZE, xm.data_len>> ELSE xlog.progress

\* progress_callback(offset, len(data)), when one was given
Progress(offset) ==
    IF xm.has_callback THEN <<offset, xm.data_len>> ELSE xlog.progress

\* lines 96-108: the length check, then the transport's protocol is swapped
XmCall ==
    /\ xm.pc = "idle"
    /\ xlog = InitXlog
    /\ \E data_len \in DataLengths, max_failures \in 0..MaxFailures,
          has_callback \in BOOLEAN :
         IF data_len % BLOCK_SIZE # 0
         THEN /\ xm' = [xm EXCEPT !.pc = "raised", !.data_len = data_len,
                                  !.max_failures = max_failures,
                                  !.has_callback = has_callback,
                                  !.error = "ValueError: length"]
              /\ UNCHANGED transport
         ELSE /\ xm' = [xm EXCEPT !.pc = "readuntil", !.data_len = data_len,
                                  !.max_failures = max_failures,
                                  !.has_callback = has_callback,
                                  !.old_protocol = transport.protocol]
              /\ transport' = [transport EXCEPT !.protocol = "stream"]
    /\ UNCHANGED <<xlog, orchVars, reqVars, connVars, geckoVars, smVars, calcVars, rxVars>>

\* lines 112-118: bytes are read until a "C"; then progress is reported and
\* what else was buffered is dropped
XmReadUntilC ==
    /\ xm.pc = "readuntil"
    /\ \E byte \in Readable(ReceiverBytes) :
         IF byte = ASCII_C
         THEN /\ xm' = [xm EXCEPT !.pc = "write", !.index = 0, !.attempt = 0,
                                  !.reader = <<>>]
              /\ xlog' = [xlog EXCEPT !.c_read = TRUE, !.progress = Progress(0)]
         ELSE /\ xm' = [xm EXCEPT !.reader = Taken]
              /\ UNCHANGED xlog
    /\ UNCHANGED <<transport, orchVars, reqVars, connVars, geckoVars, smVars, calcVars, rxVars>>

\* lines 62-66: the packet is written
XmWrite ==
    /\ xm.pc = "write"
    /\ transport' = [transport EXCEPT !.out = CurrentPacket]
    /\ xlog' = [xlog EXCEPT !.tx = @ + 1, !.protocol_at_write = transport.protocol,
                            !.last_packet = CurrentPacket]
    /\ xm' = [xm EXCEPT !.pc = "read"]
    /\ UNCHANGED <<orchVars, reqVars, connVars, geckoVars, smVars, calcVars, rxVars>>

\* lines 69-84 and, on ACK, lines 134-147: one response byte is read within
\* RECEIVE_TIMEOUT, the receiver's answer to the packet written
XmRead ==
    /\ xm.pc = "read"
    /\ \E rsp \in Readable(ReceiverBytes \cup {NoByte}) :
         IF rsp = ACK
         THEN IF xm.index < NumBlocks(xm.data_len)
              THEN /\ xm' = [xm EXCEPT !.pc = "write", !.index = @ + 1, !.attempt = 0,
                                       !.reader = Taken]
                   /\ xlog' = [xlog EXCEPT
                         !.acked = @ + 1, !.tx = 0, !.naks = 0, !.last_rsp = rsp,
                         !.progress = Progress((xm.index + 1) * BLOCK_SIZE)]
              ELSE /\ xm' = [xm EXCEPT !.pc = "finally", !.reader = Taken]
                   /\ xlog' = [xlog EXCEPT !.acked = @ + 1, !.last_rsp = rsp]
         ELSE IF rsp = NAK /\ ~TooManyFailures(xm.attempt, xm.max_failures)
         THEN /\ xm' = [xm EXCEPT !.pc = "write", !.attempt = @ + 1,
                                  !.reader = Taken]
              /\ xlog' = [xlog EXCEPT !.naks = @ + 1, !.last_rsp = rsp]
         ELSE /\ xm' = [xm EXCEPT !.pc = "finally", !.error = ResponseError(rsp),
                                  !.reader = Taken]
              /\ xlog' = [xlog EXCEPT !.naks = IF rsp = NAK THEN @ + 1 ELSE @,
                                      !.last_rsp = rsp]
    /\ transport' = [transport EXCEPT !.out = <<>>]
    /\ UNCHANGED <<orchVars, reqVars, connVars, geckoVars, smVars, calcVars, rxVars>>

\* lines 148-167: the old protocol is put back on the transport and given
\* what the reader holds
XmFinally ==
    /\ xm.pc = "finally"
    /\ transport' = Restored(transport, xm.old_protocol)
    /\ xm' = [xm EXCEPT !.pc = IF xm.error = None THEN "returned" ELSE "raised"]
    /\ xlog' = [xlog EXCEPT !.handed_back = xm.reader]
    /\ UNCHANGED <<orchVars, reqVars, connVars, geckoVars, smVars, calcVars, rxVars>>

\* bytes the device sends on its own: further "C"s, text
UnsolicitedBytes == {ASCII_C, 0}

\* the StreamReaderProtocol installed at line 108 feeds what the transport
\* receives to the reader
XmFeedData ==
    /\ transport.protocol = "stream"
    /\ Len(xm.reader) < MaxUnread
    /\ \E byte \in UnsolicitedBytes :
         xm' = [xm EXCEPT !.reader = Append(@, byte)]
    /\ UNCHANGED <<transport, xlog, orchVars, reqVars, connVars, geckoVars, smVars, calcVars, rxVars>>

\* the task is cancelled while it awaits readuntil (line 118) or a response
\* (line 69): CancelledError leaves through `finally`
XmCancel ==
    /\ xm.pc \in {"readuntil", "read"}
    /\ xm' = [xm EXCEPT !.pc = "finally", !.error = "CancelledError"]
    /\ UNCHANGED <<transport, xlog, orchVars, reqVars, connVars, geckoVars, smVars, calcVars, rxVars>>

-----------------------------------------------------------------------------
(* cpc.py: CPCProtocol.send_unnumbered_frame and frame_received;            *)
(* spinel.py: SpinelProtocol.send_frame and frame_received.  A request is   *)
(* its key (command_seq, transaction id); the device answers with frames    *)
(* that carry a key.  A timeout fires only while the awaited future has no  *)
(* result.                                                                  *)

\* the future a call registers, and the frame an answered one holds
NoFuture == [done |-> FALSE, result |-> None]

IdleCall ==
    [pc |-> "idle", key |-> 0, retries |-> 0, wait_response |-> TRUE, attempt |-> 0,
     future |-> NoFuture, result |-> None, error |-> None]

\* CPCProtocol.__init__ (cpc.py:212-215), SpinelProtocol.__init__
\* (spinel.py:107-110), with the counter at `seq`
NewClient(kind, seq) ==
    [kind |-> kind, seq |-> seq, pending |-> <<>>, orphan_done |-> {}]

InitRlog ==
    [sent |-> 0, last_sent |-> -1, matched |-> FALSE, calls |-> 0,
     invalid_state |-> FALSE]

\* cpc.py:322
NextCommandSeq(seq) == (seq + 1) % 256

\* the counter taken modulo 15, after the source's comment ("we only use 1-15")
NextTransactionIdMod15(tid) == (tid + 1) % 15

\* spinel.py:185
NextTransactionId(tid) == (tid + 1) % 14

\* the key of the request a call makes (cpc.py:318, spinel.py:186)
RequestKey ==
    IF client.kind = "cpc" THEN client.seq ELSE 1 + NextTransactionId(client.seq)

\* a dict with `key` set to `value`, and with `key` removed
DictSet(d, key, value) ==
    [k \in DOMAIN d \cup {key} |-> IF k = key THEN value ELSE d[k]]

DictPop(d, key) == [k \in DOMAIN d \ {key} |-> d[k]]

\* a sender that makes one attempt more
GivesUpOneLate(attempt, retries) == attempt >= retries + 1

\* cpc.py:346, spinel.py:218
GivesUp(attempt, retries) == attempt >= retries

\* an exit that leaves the call's entry where it is
LeavesEntry(c) == c

\* `finally` (cpc.py:351, spinel.py:223): the call's entry is removed
Finally(c) == [c EXCEPT !.pending = DictPop(@, call.key)]

\* cpc.py:310-336, spinel.py:185-208: the key is taken, the counter advanced,
\* the future registered and the request frame written, up to the first await;
\* a Spinel frame sent without waiting is written and the call returns
ReqCall ==
    /\ call.pc \in {"idle", "returned", "raised"}
    /\ rlog.calls < MaxRequests
    /\ \E retries \in 0..MaxRetries, wait_response \in BOOLEAN :
         LET key == RequestKey
             seq == IF client.kind = "cpc" THEN NextCommandSeq(client.seq)
                    ELSE NextTransactionId(client.seq)
             c == [IdleCall EXCEPT !.key = key, !.retries = retries,
                                   !.wait_response = wait_response]
         IN  /\ client.kind = "cpc" => wait_response
             /\ IF client.kind = "cpc" /\ seq \in DOMAIN client.pending
                THEN /\ call' = [c EXCEPT !.pc = "raised", !.error = "AssertionError"]
                     /\ client' = [client EXCEPT !.seq = seq]
                     /\ rlog' = [InitRlog EXCEPT !.calls = rlog.calls + 1]
                ELSE IF wait_response
                THEN /\ call' = [c EXCEPT !.pc = "await"]
                     /\ client' = [client EXCEPT
                           !.seq = seq,
                           !.pending = DictSet(@, key, "call"),
                           !.orphan_done = @ \ {key}]
                     /\ rlog' = [InitRlog EXCEPT !.calls = rlog.calls + 1, !.sent = 1,
                                                 !.last_sent = key]
                ELSE /\ call' = [c EXCEPT !.pc = "returned"]
                     /\ client' = [client EXCEPT
                           !.seq = seq,
                           !.pending = DictSet(@, key, "orphan"),
                           !.orphan_done = @ \ {key}]
                     /\ rlog' = [InitRlog EXCEPT !.calls = rlog.calls + 1, !.sent = 1,
                                                 !.last_sent = key]
    /\ UNCHANGED <<orchVars, xmodemVars, connVars, geckoVars, smVars, calcVars, rxVars>>

\* cpc.py:335-336, spinel.py:207-208: the future has its result
ReqReturn ==
    /\ call.pc = "await"
    /\ call.future.done
    /\ call' = [call EXCEPT !.pc = "returned", !.result = call.future.result]
    /\ client' = Finally(client)
    /\ UNCHANGED <<rlog, orchVars, xmodemVars, connVars, geckoVars, smVars, calcVars, rxVars>>

\* cpc.py:337-349, spinel.py:209-221: the timeout passes
ReqTimeout ==
    /\ call.pc = "await"
    /\ ~call.future.done
    /\ IF GivesUp(call.attempt, call.retries)
       THEN /\ call' = [call EXCEPT !.pc = "raised", !.error = "TimeoutError"]
            /\ client' = Finally(client)
       ELSE /\ call' = [call EXCEPT !.pc = "sleep"]
            /\ UNCHANGED client
    /\ UNCHANGED <<rlog, orchVars, xmodemVars, connVars, geckoVars, smVars, calcVars, rxVars>>

\* cpc.py:349 and 330-336, spinel.py:221 and 202-208: the retry delay has
\* passed; the loop goes on and writes the request frame again
ReqSleepDone ==
    /\ call.pc = "sleep"
    /\ call' = [call EXCEPT !.pc = "await", !.attempt = @ + 1]
    /\ rlog' = [rlog EXCEPT !.sent = @ + 1, !.last_sent = call.key]
    /\ UNCHANGED <<client, orchVars, xmodemVars, connVars, geckoVars, smVars, calcVars, rxVars>>

\* the task is cancelled from an outer scope while it waits for the response
\* (cpc.py:335-336, spinel.py:207-208) or for the retry delay (cpc.py:349,
\* spinel.py:221): CancelledError leaves through `finally`; the shielded
\* future is not cancelled
ReqCancel ==
    /\ call.pc \in {"await", "sleep"}
    /\ call' = [call EXCEPT !.pc = "raised", !.error = "CancelledError"]
    /\ client' = Finally(client)
    /\ UNCHANGED <<rlog, orchVars, xmodemVars, connVars, geckoVars, smVars, calcVars, rxVars>>

\* the keys of the frames a device sends: those waited for, and one that is not
StrayKey ==
    IF client.kind = "cpc" THEN NextCommandSeq(client.seq)
    ELSE 1 + NextTransactionId(client.seq)

ResponseKeys == DOMAIN client.pending \cup {StrayKey, call.key}

InFlight == call.pc \in {"await", "sleep"}

\* cpc.py:289-298: a POLL_FINAL frame with a pending command_seq resolves the
\* future and removes it; any other frame is dropped
CpcFrameReceived ==
    /\ client.kind = "cpc"
    /\ \E key \in ResponseKeys, poll_final \in BOOLEAN :
         LET frame == [key |-> key, poll_final |-> poll_final]
         IN  IF poll_final /\ key \in DOMAIN client.pending
             THEN /\ client' = [client EXCEPT !.pending = DictPop(@, key)]
                  /\ call' = [call EXCEPT !.future = [done |-> TRUE, result |-> frame]]
                  /\ rlog' = [rlog EXCEPT !.matched = TRUE]
             ELSE UNCHANGED <<client, call, rlog>>
    /\ UNCHANGED <<orchVars, xmodemVars, connVars, geckoVars, smVars, calcVars, rxVars>>

\* spinel.py:145-149: a frame with a pending transaction id resolves the
\* future, which stays registered; set_result on a future that has its result
\* raises InvalidStateError
SpinelFrameReceived ==
    /\ client.kind = "spinel"
    /\ \E key \in ResponseKeys :
         LET frame == [key |-> key, poll_final |-> FALSE]
         IN  IF key \notin DOMAIN client.pending
             THEN UNCHANGED <<client, call, rlog>>
             ELSE IF client.pending[key] = "call"
             THEN IF call.future.done
                  THEN /\ rlog' = [rlog EXCEPT !.invalid_state = TRUE]
                       /\ UNCHANGED <<client, call>>
                  ELSE /\ call' = [call EXCEPT
                             !.future = [done |-> TRUE, result |-> frame]]
                       /\ rlog' = [rlog EXCEPT !.matched = TRUE]
                       /\ UNCHANGED client
             ELSE IF key \in client.orphan_done
                  THEN /\ rlog' = [rlog EXCEPT !.invalid_state = TRUE]
                       /\ UNCHANGED <<client, call>>
                  ELSE /\ client' = [client EXCEPT !.orphan_done = @ \cup {key}]
                       /\ UNCHANGED <<call, rlog>>
    /\ UNCHANGED <<orchVars, xmodemVars, connVars, geckoVars, smVars, calcVars, rxVars>>

-----------------------------------------------------------------------------
(* common.py: connect_protocol, emberznet.py: connect_ezsp, as the Flasher  *)
(* uses them (flasher.py:109, 135, 156, 166, 176, 279, 283, 287, 321): one  *)
(* `async with` block after the other.  `live` counts the serial            *)
(* connections that were created and not closed.                            *)

\* the callers of the context managers, and the two managers
ConnCallers == {"probe_app_type", "enter_bootloader", "flash_firmware"}

ConnFactories == {"connect_protocol", "connect_ezsp"}

\* how the body of an `async with` block ends: it runs to its end, a probe or
\* request times out, another error is raised, or the task is cancelled
BodyExits == {"ok", "TimeoutError", "Error", "CancelledError"}

IdleConn ==
    [pc |-> "closed", caller |-> None, factory |-> None, live |-> 0, opened |-> 0,
     exit |-> None]

ConnAtRest == conn = IdleConn

\* flasher.py:228-231: probe_app_type catches the timeout of a probe and goes
\* on to the next pair, in the same call; every other caller, and every other
\* error, ends the call
NextConnectionFollows(c) ==
    \/ c.pc = "closed"
    \/ c.pc = "raised" /\ c.caller = "probe_app_type" /\ c.exit = "TimeoutError"

\* common.py:177-181, emberznet.py:12-40: the context manager is entered and
\* waits for the connection to be created
ConnEnter ==
    /\ NextConnectionFollows(conn)
    /\ conn.opened < MaxConnections
    /\ \E caller \in ConnCallers, factory \in ConnFactories :
         /\ conn.pc = "raised" => caller = conn.caller
         /\ conn' = [conn EXCEPT !.pc = "create", !.caller = caller,
                              !.factory = factory, !.opened = @ + 1, !.exit = None]
    /\ UNCHANGED <<orchVars, xmodemVars, reqVars, geckoVars, smVars, calcVars, rxVars>>

\* common.py:181-187: create_serial_connection returns the transport and
\* the protocol; the connected signal is awaited next.  emberznet.py:40-43:
\* EZSP.initialize returns a connected EZSP, which is yielded
ConnCreated ==
    /\ conn.pc = "create"
    /\ conn' = [conn EXCEPT
          !.pc = IF conn.factory = "connect_protocol" THEN "wait_until_connected"
                 ELSE "yielded",
          !.live = @ + 1]
    /\ UNCHANGED <<orchVars, xmodemVars, reqVars, geckoVars, smVars, calcVars, rxVars>>

\* common.py:180-186, emberznet.py:40: the connection cannot be created, or
\* (connect_protocol) the connect timeout passes before it is; nothing is open
ConnCreateFails ==
    /\ conn.pc = "create"
    /\ \E error \in {"TimeoutError", "Error"} :
         /\ error = "TimeoutError" => conn.factory = "connect_protocol"
         /\ conn' = [conn EXCEPT !.pc = "raised", !.exit = error]
    /\ UNCHANGED <<orchVars, xmodemVars, reqVars, geckoVars, smVars, calcVars, rxVars>>

\* common.py:187-190: connection_made has set the connected event; the
\* protocol is yielded to the `async with` body
ConnConnected ==
    /\ conn.pc = "wait_until_connected"
    /\ conn' = [conn EXCEPT !.pc = "yielded"]
    /\ UNCHANGED <<orchVars, xmodemVars, reqVars, geckoVars, smVars, calcVars, rxVars>>

\* common.py:180-187: the connect timeout passes while wait_until_connected
\* is awaited; asyncio.TimeoutError leaves connect_protocol before its `try`
\* (line 189), so nothing closes the transport created at line 181
ConnConnectTimeout ==
    /\ conn.pc = "wait_until_connected"
    /\ conn' = [conn EXCEPT !.pc = "raised", !.exit = "TimeoutError"]
    /\ UNCHANGED <<orchVars, xmodemVars, reqVars, geckoVars, smVars, calcVars, rxVars>>

\* common.py:190-195, emberznet.py:43-46: however the body ends, `finally`
\* runs disconnect() (transport.close()) / ezsp.close(); the pause that
\* follows is still to be awaited
ConnExitBody ==
    /\ conn.pc = "yielded"
    /\ \E exit \in BodyExits :
         conn' = [conn EXCEPT !.pc = "pause", !.exit = exit,
                              !.live = @ - 1]
    /\ UNCHANGED <<orchVars, xmodemVars, reqVars, geckoVars, smVars, calcVars, rxVars>>

\* common.py:195, emberznet.py:46: the pause is over; the context manager is
\* left, normally or with the exception of the body
ConnPauseDone ==
    /\ conn.pc = "pause"
    /\ conn' = [conn EXCEPT !.pc = IF conn.exit = "ok" THEN "closed" ELSE "raised"]
    /\ UNCHANGED <<orchVars, xmodemVars, reqVars, geckoVars, smVars, calcVars, rxVars>>

-----------------------------------------------------------------------------
(* gecko_bootloader.py: GeckoBootloaderProtocol.  The device's output is a  *)
(* sequence of tokens: a menu text (one that MENU_REGEX matches), the byte  *)
(* "C", the two upload status lines, the bytes of a message, the NUL byte   *)
(* and a byte "x" of anything else.  A wait under a timeout times out only  *)
(* while the awaited state has not been entered.                            *)

\* a text MENU_REGEX (lines 28-34) matches, and its `version` group
MenuTexts == {"MENU_1.2"}

MenuVersion(text) == "1.2"

\* "\r\nSerial upload complete\r\n" and "\r\nSerial upload aborted\r\n", and
\* the `status` group of UPLOAD_STATUS_REGEX (lines 36-40) for each
StatusLines == {"COMPLETE", "ABORTED"}

StatusOf(line) == IF line = "COMPLETE" THEN "complete" ELSE "aborted"

\* the messages a bootloader sends after the status line, before a NUL byte
UploadMessages == { <<>>, <<"e">>, <<"e", "r">> }

\* the position of the first token of `buf` that is in `tokens`, 0 if none is
FirstIndex(buf, tokens) ==
    IF \E i \in 1..Len(buf) : buf[i] \in tokens
    THEN CHOOSE i \in 1..Len(buf) :
            buf[i] \in tokens /\ \A j \in 1..(i - 1) : buf[j] \notin tokens
    ELSE 0

\* the end of UPLOAD_STATUS_REGEX (line 38), `\x00?`: matches with the NUL
\* byte and without it
OptionalNul(rest) == TRUE

\* `(?P<message>.*?)` with re.DOTALL (lines 38-39): the shortest run of bytes
\* after which the end of the pattern matches
LazyLength(rest) ==
    CHOOSE n \in 0..Len(rest) :
        /\ OptionalNul(SubSeq(rest, n + 1, Len(rest)))
        /\ \A m \in 0..(n - 1) : ~OptionalNul(SubSeq(rest, m + 1, Len(rest)))

\* UPLOAD_STATUS_REGEX.search (line 168): the first status line, the message
\* group, and the end of the match (the NUL byte is taken when it follows)
UploadStatusMatch(buf) ==
    LET i == FirstIndex(buf, StatusLines)
        rest == SubSeq(buf, i + 1, Len(buf))
        n == LazyLength(rest)
        nul == IF n < Len(rest) /\ rest[n + 1] = "NUL" THEN 1 ELSE 0
    IN  [found |-> i > 0,
         status |-> IF i > 0 THEN StatusOf(buf[i]) ELSE None,
         message |-> SubSeq(rest, 1, n),
         end |-> i + n + nul]

\* self._upload_status: None, "complete", or the message of an aborted upload
NoStatus == [none |-> TRUE, text |-> <<>>]

CompleteText == <<"complete">>

\* StateMachine (common.py:76-118): no coroutine waits for a state
NoWaiter == [state |-> None, done |-> FALSE]

\* GeckoBootloaderProtocol.__init__ (lines 59-66)
NewGecko ==
    [state |-> "WAITING_FOR_MENU", buffer |-> <<>>, version |-> None,
     upload_status |-> NoStatus, waiter |-> NoWaiter]

\* StateMachine.state's setter (common.py:94-102): the futures that wait for
\* the state are resolved
SetState(g, state) ==
    [g EXCEPT !.state = state,
              !.waiter = IF @.state = state THEN [@ EXCEPT !.done = TRUE] ELSE @]

\* wait_for_state returning whatever the state is
WaitReturnsAtOnce(g, state) ==
    [g EXCEPT !.waiter = [state |-> state, done |-> TRUE]]

\* StateMachine.wait_for_state (common.py:104-118): returns at once in the
\* state waited for, else a future is registered
WaitForState(g, state) ==
    [g EXCEPT !.waiter = [state |-> state, done |-> g.state = state]]

\* a parser that looks for the menu whatever the state is
MenuInEveryState(g, data) ==
    LET buf == g.buffer \o data
    IN  IF FirstIndex(buf, MenuTexts) = 0
        THEN [g EXCEPT !.buffer = buf]
        ELSE SetState([g EXCEPT !.buffer = <<>>], "IN_MENU")

\* data_received (lines 145-186): the data is appended and the buffer parsed
\* for what the state waits for
data_received(g, data) ==
    LET buf == g.buffer \o data
        match == UploadStatusMatch(buf)
    IN  IF buf = <<>> THEN g
        ELSE CASE g.state = "WAITING_FOR_MENU" ->
                    IF FirstIndex(buf, MenuTexts) = 0
                    THEN [g EXCEPT !.buffer = buf]
                    ELSE SetState(
                           [g EXCEPT !.buffer = <<>>,
                                     !.version = MenuVersion(buf[FirstIndex(buf, MenuTexts)])],
                           "IN_MENU")
               [] g.state = "WAITING_XMODEM_READY" ->
                    IF buf[Len(buf)] # "C"
                    THEN [g EXCEPT !.buffer = buf]
                    ELSE SetState([g EXCEPT !.buffer = <<>>], "XMODEM_READY")
               [] g.state = "WAITING_UPLOAD_DONE" ->
                    IF ~match.found
                    THEN [g EXCEPT !.buffer = buf]
                    ELSE SetState(
                           [g EXCEPT
                              !.buffer = SubSeq(buf, match.end + 1, Len(buf)),
                              !.upload_status =
                                  [none |-> FALSE,
                                   text |-> IF match.status = "complete"
                                            THEN CompleteText ELSE match.message]],
                           "UPLOAD_DONE")
               [] OTHER -> [g EXCEPT !.buffer = buf]

\* the frame of a call, and the history of one call
IdleGk == [pc |-> "idle", op |-> None, error |-> None, error_arg |-> <<>>,
           result |-> None]

NoReport == [set |-> FALSE, status |-> None, message |-> <<>>]

InitGlog ==
    [calls |-> 0, sent |-> <<>>, called_in |-> None, menu_reentered |-> FALSE,
     menu_after_run |-> FALSE, reported |-> NoReport, xmodem |-> None]

GeckoAtRest == gecko = NewGecko /\ gk = IdleGk /\ glog = InitGlog

\* ebl_info up to its await (lines 75-81): the state is reset, a newline and
\* option 3 are written, IN_MENU is waited for
EblInfo(g) == WaitForState(SetState(g, "WAITING_FOR_MENU"), "IN_MENU")

EblInfoSent == <<"\n", "3">>

\* run_firmware from line 91 to its await at line 96
RunSelected(g) == WaitForState(SetState(g, "WAITING_FOR_MENU"), "IN_MENU")

\* NoFirmwareError raised when the window passes, success when the menu is seen
RunResultSwapped(menu_seen) == IF menu_seen THEN "ok" ELSE "NoFirmwareError"

\* run_firmware, lines 94-101: the menu is seen within RUN_APPLICATION_DELAY
\* (`else`: NoFirmwareError) or the wait times out (`except`: return)
RunResult(menu_seen) == IF menu_seen THEN "NoFirmwareError" ELSE "ok"

\* a call of probe (lines 68-71), run_firmware (86-101) or upload_firmware
\* (103-143), up to its first await
GeckoCall ==
    /\ gk.pc \in {"idle", "returned", "raised"}
    /\ glog.calls < MaxGeckoCalls
    /\ \E op \in {"probe", "run_firmware", "upload_firmware"} :
         /\ glog' = [InitGlog EXCEPT
               !.calls = glog.calls + 1,
               !.called_in = gecko.state,
               !.sent = IF op # "run_firmware" THEN EblInfoSent
                        ELSE IF gecko.state = "IN_MENU" THEN <<"2">> ELSE <<>>]
         /\ gk' = [IdleGk EXCEPT
               !.op = op,
               !.pc = CASE op = "probe" -> "probe"
                        [] op = "upload_firmware" -> "upload_ebl_info"
                        [] op = "run_firmware" ->
                             IF gecko.state = "IN_MENU" THEN "run_window"
                             ELSE "run_wait_menu"]
         /\ gecko' = IF op # "run_firmware" THEN EblInfo(gecko)
                     ELSE IF gecko.state = "IN_MENU" THEN RunSelected(gecko)
                     ELSE WaitForState(gecko, "IN_MENU")
    /\ UNCHANGED <<orchVars, xmodemVars, reqVars, connVars, smVars, calcVars, rxVars>>

\* probe (lines 70-71, 83-84): the menu was seen; the version is returned
GeckoProbeDone ==
    /\ gk.pc = "probe"
    /\ gecko.waiter.done
    /\ gk' = [gk EXCEPT !.pc = "returned", !.result = gecko.version]
    /\ gecko' = [gecko EXCEPT !.waiter = NoWaiter]
    /\ UNCHANGED <<glog, orchVars, xmodemVars, reqVars, connVars, smVars, calcVars, rxVars>>

\* probe (line 70): PROBE_TIMEOUT passes
GeckoProbeTimeout ==
    /\ gk.pc = "probe"
    /\ ~gecko.waiter.done
    /\ gk' = [gk EXCEPT !.pc = "raised", !.error = "TimeoutError"]
    /\ gecko' = [gecko EXCEPT !.waiter = NoWaiter]
    /\ UNCHANGED <<glog, orchVars, xmodemVars, reqVars, connVars, smVars, calcVars, rxVars>>

\* run_firmware (lines 88-96) called outside the menu: the menu was seen, the
\* run option is selected
GeckoRunMenuSeen ==
    /\ gk.pc = "run_wait_menu"
    /\ gecko.waiter.done
    /\ gk' = [gk EXCEPT !.pc = "run_window"]
    /\ gecko' = RunSelected(gecko)
    /\ glog' = [glog EXCEPT !.sent = Append(@, "2")]
    /\ UNCHANGED <<orchVars, xmodemVars, reqVars, connVars, smVars, calcVars, rxVars>>

\* run_firmware (lines 94-101): the wait of line 96 ends
GeckoRunDone ==
    /\ gk.pc = "run_window"
    /\ LET result == RunResult(gecko.waiter.done)
       IN  gk' = IF result = "ok" THEN [gk EXCEPT !.pc = "returned"]
                 ELSE [gk EXCEPT !.pc = "raised", !.error = result]
    /\ gecko' = [gecko EXCEPT !.waiter = NoWaiter]
    /\ UNCHANGED <<glog, orchVars, xmodemVars, reqVars, connVars, smVars, calcVars, rxVars>>

\* upload_firmware (lines 111-118): the menu was seen; the upload option is
\* selected and the first "C" waited for
GeckoUploadSelected ==
    /\ gk.pc = "upload_ebl_info"
    /\ gecko.waiter.done
    /\ gk' = [gk EXCEPT !.pc = "upload_wait_ready"]
    /\ gecko' = WaitForState(SetState(gecko, "WAITING_XMODEM_READY"), "XMODEM_READY")
    /\ glog' = [glog EXCEPT !.sent = Append(@, "1")]
    /\ UNCHANGED <<orchVars, xmodemVars, reqVars, connVars, smVars, calcVars, rxVars>>

\* upload_firmware (lines 118-129): the receiver is ready; the status is
\* cleared and send_xmodem128_crc takes the transport over
GeckoUploadXmodem ==
    /\ gk.pc = "upload_wait_ready"
    /\ gecko.waiter.done
    /\ gk' = [gk EXCEPT !.pc = "upload_xmodem"]
    /\ gecko' = [SetState([gecko EXCEPT !.waiter = NoWaiter], "WAITING_UPLOAD_DONE")
                   EXCEPT !.upload_status = NoStatus]
    /\ UNCHANGED <<glog, orchVars, xmodemVars, reqVars, connVars, smVars, calcVars, rxVars>>

\* what the device sends once the transfer has ended: a status line, a
\* message and the NUL byte
Reports ==
    { <<line>> \o message \o <<"NUL">> : line \in StatusLines, message \in UploadMessages }

ReportOf(data) ==
    [set |-> TRUE, status |-> StatusOf(data[1]),
     message |-> SubSeq(data, 2, Len(data) - 1)]

\* send_xmodem128_crc ends (lines 124-131, xmodemcrc.py:148-167): it raises,
\* or it returns; what its reader had read and not used is handed to
\* data_received; UPLOAD_DONE is waited for
GeckoXmodemDone ==
    /\ gk.pc = "upload_xmodem"
    /\ \E outcome \in {"ok", "error"}, data \in Reports \cup {<<>>} :
         /\ Len(gecko.buffer) + Len(data) <= MaxBuffer
         /\ glog' = [glog EXCEPT !.xmodem = outcome,
                                 !.reported = IF data = <<>> THEN @ ELSE ReportOf(data)]
         /\ IF outcome = "ok"
            THEN /\ gk' = [gk EXCEPT !.pc = "upload_wait_done"]
                 /\ gecko' = WaitForState(data_received(gecko, data), "UPLOAD_DONE")
            ELSE /\ gk' = [gk EXCEPT !.pc = "raised", !.error = "XmodemError"]
                 /\ gecko' = data_received(gecko, data)
    /\ UNCHANGED <<orchVars, xmodemVars, reqVars, connVars, smVars, calcVars, rxVars>>

\* upload_firmware (lines 131-137): the status was parsed; the menu is waited
\* for, MENU_AFTER_UPLOAD_TIMEOUT long
GeckoUploadDone ==
    /\ gk.pc = "upload_wait_done"
    /\ gecko.waiter.done
    /\ gk' = [gk EXCEPT !.pc = "upload_wait_menu"]
    /\ gecko' = WaitForState(SetState(gecko, "WAITING_FOR_MENU"), "IN_MENU")
    /\ UNCHANGED <<glog, orchVars, xmodemVars, reqVars, connVars, smVars, calcVars, rxVars>>

\* upload_firmware (lines 138-140): the menu did not come; ebl_info asks for it
GeckoUploadMenuTimeout ==
    /\ gk.pc = "upload_wait_menu"
    /\ ~gecko.waiter.done
    /\ gk' = [gk EXCEPT !.pc = "upload_ebl_info_again"]
    /\ gecko' = EblInfo(gecko)
    /\ glog' = [glog EXCEPT !.sent = @ \o EblInfoSent]
    /\ UNCHANGED <<orchVars, xmodemVars, reqVars, connVars, smVars, calcVars, rxVars>>

\* upload_firmware (lines 142-143): the menu is there; the call fails with
\* UploadError(self._upload_status) unless the status is "complete"
GeckoUploadReturn ==
    /\ gk.pc \in {"upload_wait_menu", "upload_ebl_info_again"}
    /\ gecko.waiter.done
    /\ gk' = IF gecko.upload_status.none \/ gecko.upload_status.text # CompleteText
             THEN [gk EXCEPT !.pc = "raised", !.error = "UploadError",
                             !.error_arg = gecko.upload_status.text]
             ELSE [gk EXCEPT !.pc = "returned"]
    /\ gecko' = [gecko EXCEPT !.waiter = NoWaiter]
    /\ UNCHANGED <<glog, orchVars, xmodemVars, reqVars, connVars, smVars, calcVars, rxVars>>

\* the device's output outside the upload report: a menu, a "C", another byte
Chunks == { <<text>> : text \in MenuTexts } \cup { <<"C">>, <<"x">> }

\* the transport delivers device output to data_received (line 145); during
\* the transfer it delivers to the XMODEM reader instead
GeckoDataReceived ==
    /\ gk.pc # "upload_xmodem"
    /\ \E data \in Chunks :
         /\ Len(gecko.buffer) + Len(data) <= MaxBuffer
         /\ gecko' = data_received(gecko, data)
         /\ glog' = [glog EXCEPT
               !.menu_reentered =
                   @ \/ (gk.pc = "run_window" /\ gecko.state # "IN_MENU"
                         /\ data_received(gecko, data).state = "IN_MENU"),
               !.menu_after_run =
                   @ \/ (gk.pc = "run_window" /\ data[1] \in MenuTexts)]
    /\ UNCHANGED <<gk, orchVars, xmodemVars, reqVars, connVars, smVars, calcVars, rxVars>>

\* the bootloader reports how the upload ended, once, after the transfer
GeckoUploadReported ==
    /\ gk.pc = "upload_wait_done"
    /\ ~glog.reported.set
    /\ \E data \in Reports :
         /\ Len(gecko.buffer) + Len(data) <= MaxBuffer
         /\ gecko' = data_received(gecko, data)
         /\ glog' = [glog EXCEPT !.reported = ReportOf(data)]
    /\ UNCHANGED <<gk, orchVars, xmodemVars, reqVars, connVars, smVars, calcVars, rxVars>>

-----------------------------------------------------------------------------
(* common.py: StateMachine, used by several tasks.  A future is pending,    *)
(* done (set_result was called) or cancelled (the task that awaits it was   *)
(* cancelled); its task resumes in a later turn of the event loop, and only *)
(* then does the `finally` of wait_for_state remove the future.             *)

\* the states of test_state_machine, and one that is not declared
States == {"a", "b", "c"}

UnknownState == "x"

Tasks == 1..MaxTasks

\* StateMachine.__init__ (lines 79-88)
NewStateMachine(initial) == [state |-> initial, futures |-> <<>>]

IdleTask == [pc |-> "idle", state |-> None, at_once |-> FALSE, must_cancel |-> FALSE]

InitSmlog == [tick |-> FALSE, arg |-> None, error |-> None]

SmAtRest ==
    /\ sm = NewStateMachine("a")
    /\ tasks = [t \in Tasks |-> IdleTask]
    /\ smlog = InitSmlog

\* the place of task t's future in the registrations, 0 when it has none
FutureOf(m, t) ==
    IF \E i \in 1..Len(m.futures) : m.futures[i].task = t
    THEN CHOOSE i \in 1..Len(m.futures) : m.futures[i].task = t
    ELSE 0

\* lines 101-102: the first future of self._futures_for_state[state] on which
\* set_result raises InvalidStateError, because it is done or cancelled
FirstNotPending(m, state) ==
    LET bad == { i \in 1..Len(m.futures) :
                   m.futures[i].state = state /\ m.futures[i].status # "pending" }
    IN  IF bad = {} THEN 0 ELSE CHOOSE i \in bad : \A j \in bad : i <= j

\* lines 101-102: set_result on the futures registered for the state, in the
\* order of registration, up to the first one that raises
SetResults(m, state) ==
    LET stop == FirstNotPending(m, state)
    IN  [i \in 1..Len(m.futures) |->
           IF m.futures[i].state = state /\ m.futures[i].status = "pending"
                /\ (stop = 0 \/ i < stop)
           THEN [m.futures[i] EXCEPT !.status = "done"]
           ELSE m.futures[i]]

\* the state setter (lines 94-102) and the exception it raises, if any
SetterError(m, state) ==
    IF state \notin States THEN "ValueError"
    ELSE IF FirstNotPending(m, state) # 0 THEN "InvalidStateError"
    ELSE None

Setter(m, state) ==
    IF state \notin States THEN m
    ELSE [m EXCEPT !.state = state, !.futures = SetResults(m, state)]

\* `finally` of wait_for_state (lines 116-118): the future is removed
RemoveFuture(m, t) ==
    [m EXCEPT !.futures =
        SubSeq(@, 1, FutureOf(m, t) - 1) \o SubSeq(@, FutureOf(m, t) + 1, Len(@))]

\* some code assigns the state
SmSetState ==
    /\ \E state \in States \cup {UnknownState} :
         /\ sm' = Setter(sm, state)
         /\ smlog' = [tick |-> ~smlog.tick, arg |-> state,
                      error |-> SetterError(sm, state)]
    /\ UNCHANGED tasks
    /\ UNCHANGED <<orchVars, xmodemVars, reqVars, connVars, geckoVars, calcVars, rxVars>>

\* wait_for_state up to its await (lines 104-115)
SmWaitForState ==
    /\ \E t \in Tasks, state \in States :
         /\ tasks[t].pc \in {"idle", "returned", "cancelled"}
         /\ IF sm.state = state
            THEN /\ tasks' = [tasks EXCEPT ![t] =
                       [IdleTask EXCEPT !.pc = "returned", !.state = state,
                                        !.at_once = TRUE]]
                 /\ UNCHANGED sm
            ELSE /\ tasks' = [tasks EXCEPT ![t] =
                       [IdleTask EXCEPT !.pc = "waiting", !.state = state]]
                 /\ sm' = [sm EXCEPT !.futures =
                       Append(@, [task |-> t, state |-> state, status |-> "pending"])]
    /\ UNCHANGED smlog
    /\ UNCHANGED <<orchVars, xmodemVars, reqVars, connVars, geckoVars, calcVars, rxVars>>

\* Task.cancel() on a task inside wait_for_state: a pending future is
\* cancelled at once; with a future that is done the task is marked and
\* CancelledError is thrown into it when it resumes
SmCancel ==
    /\ \E t \in Tasks :
         /\ tasks[t].pc = "waiting"
         /\ ~tasks[t].must_cancel
         /\ sm.futures[FutureOf(sm, t)].status # "cancelled"
         /\ IF sm.futures[FutureOf(sm, t)].status = "pending"
            THEN /\ sm' = [sm EXCEPT !.futures[FutureOf(sm, t)].status = "cancelled"]
                 /\ UNCHANGED tasks
            ELSE /\ tasks' = [tasks EXCEPT ![t].must_cancel = TRUE]
                 /\ UNCHANGED sm
    /\ UNCHANGED smlog
    /\ UNCHANGED <<orchVars, xmodemVars, reqVars, connVars, geckoVars, calcVars, rxVars>>

\* the event loop resumes a task whose future is done or cancelled (lines
\* 115-118): `finally` removes the future, the call returns or raises
\* CancelledError
SmResume ==
    /\ \E t \in Tasks :
         /\ tasks[t].pc = "waiting"
         /\ sm.futures[FutureOf(sm, t)].status # "pending"
         /\ sm' = RemoveFuture(sm, t)
         /\ tasks' = [tasks EXCEPT ![t].pc =
               IF sm.futures[FutureOf(sm, t)].status = "cancelled"
                    \/ tasks[t].must_cancel
               THEN "cancelled" ELSE "returned"]
    /\ UNCHANGED smlog
    /\ UNCHANGED <<orchVars, xmodemVars, reqVars, connVars, geckoVars, calcVars, rxVars>>

-----------------------------------------------------------------------------
(* spinel.py: HDLCLiteFrame.  Bytes are the integers 0..255.                *)

\* HDLCSpecial (spinel_types.py:215-220)
FLAG == 126
ESCAPE == 125
XON == 17
XOFF == 19
VENDOR == 248

HDLCSpecial == {FLAG, ESCAPE, XON, XOFF, VENDOR}

\* bit i of a natural, and the bitwise exclusive or of two naturals below 2^16
Bit(a, i) == (a \div (2 ^ i)) % 2

Xor(a, b) ==
    LET x(i) == ((Bit(a, i) + Bit(b, i)) % 2) * (2 ^ i)
    IN  x(0) + x(1) + x(2) + x(3) + x(4) + x(5) + x(6) + x(7)
          + x(8) + x(9) + x(10) + x(11) + x(12) + x(13) + x(14) + x(15)

\* CRC_KERMIT (common.py:38-47): width 16, polynomial 0x1021, input and output
\* reflected, initial value and final xor 0xFFFF; `n` bits of a byte shifted
\* out, and the register after the bytes of `data`
RECURSIVE CrcShift(_, _)
CrcShift(crc, n) ==
    IF n = 0 THEN crc
    ELSE IF crc % 2 = 1 THEN CrcShift(Xor(crc \div 2, 33800), n - 1)
    ELSE CrcShift(crc \div 2, n - 1)

\* one byte taken into the register, by the table the 256 bytes have
CrcTable == [byte \in 0..255 |-> CrcShift(byte, 8)]

CrcByte(crc, byte) == Xor(crc \div 256, CrcTable[Xor(crc % 256, byte)])

RECURSIVE CrcFrom(_, _, _)
CrcFrom(crc, data, i) ==
    IF i > Len(data) THEN crc ELSE CrcFrom(CrcByte(crc, data[i]), data, i + 1)

CrcUpdate(crc, data) == CrcFrom(crc, data, 1)

\* crc16_kermit (common.py:56-57)
crc16_kermit(data) == Xor(CrcUpdate(65535, data), 65535)

\* int.to_bytes(2, "little")
ToBytesLittle(n) == <<n % 256, n \div 256>>

\* a special byte written as it is after the escape byte
EscapeKeepsByte(byte) ==
    IF byte \in HDLCSpecial THEN <<ESCAPE, byte>> ELSE <<byte>>

\* serialize, lines 25-36: a special byte is written as ESCAPE and the byte
\* xor 0x20, any other byte as it is
EscapeByte(byte) ==
    IF byte \in HDLCSpecial THEN <<ESCAPE, Xor(byte, 32)>> ELSE <<byte>>

RECURSIVE EncodedFrom(_, _)
EncodedFrom(payload, i) ==
    IF i > Len(payload) THEN <<>>
    ELSE EscapeByte(payload[i]) \o EncodedFrom(payload, i + 1)

Encoded(payload) == EncodedFrom(payload, 1)

\* HDLCLiteFrame.serialize (lines 21-38)
HDLCLiteFrame_serialize(data) ==
    <<FLAG>> \o Encoded(data \o ToBytesLittle(crc16_kermit(data))) \o <<FLAG>>

\* from_bytes, lines 42-65: flags are dropped, the byte after an escape byte
\* is xored with 0x20 and must then be a special byte
RECURSIVE UnescapeFrom(_, _, _, _)
UnescapeFrom(data, i, unescaping, unescaped) ==
    IF i > Len(data) THEN [ok |-> TRUE, bytes |-> unescaped]
    ELSE IF unescaping
    THEN IF Xor(data[i], 32) \notin HDLCSpecial
         THEN [ok |-> FALSE, bytes |-> unescaped]
         ELSE UnescapeFrom(data, i + 1, FALSE, Append(unescaped, Xor(data[i], 32)))
    ELSE IF data[i] = ESCAPE THEN UnescapeFrom(data, i + 1, TRUE, unescaped)
    ELSE IF data[i] = FLAG THEN UnescapeFrom(data, i + 1, FALSE, unescaped)
    ELSE UnescapeFrom(data, i + 1, FALSE, Append(unescaped, data[i]))

Unescape(data, unescaping, unescaped) == UnescapeFrom(data, 1, unescaping, unescaped)

\* HDLCLiteFrame.from_bytes (lines 40-74): the last two bytes are the CRC of
\* those before them
HDLCLiteFrame_from_bytes(data) ==
    LET u == Unescape(data, FALSE, <<>>)
        n == Len(u.bytes)
        body == SubSeq(u.bytes, 1, n - 2)
        crc == SubSeq(u.bytes, IF n < 2 THEN 1 ELSE n - 1, n)
    IN  IF ~u.ok THEN [error |-> "ValueError: invalid unescaped byte", data |-> <<>>]
        ELSE IF ToBytesLittle(crc16_kermit(body)) # crc
        THEN [error |-> "ValueError: invalid CRC-16", data |-> <<>>]
        ELSE [error |-> None, data |-> body]

\* payload bytes: the special bytes, what they are escaped to, and two others
PayloadBytes == HDLCSpecial \cup {94, 93, 0, 129}

\* the decoded frames of test_hdlc_lite_encoding_decoding of up to 5 bytes
TestPayloads ==
    { <<129, 2, 67>>, <<129, 3, 54, 126, 125>>, <<129, 3, 101, 1>>,
      <<129, 3, 134, 42, 1>> }

-----------------------------------------------------------------------------
(* spinel_types.py: PackedUInt21, the packed integer of command and         *)
(* property ids.                                                            *)

\* the chunks of the loop of serialize (lines 14-17): seven bits of n with the
\* most significant bit set, lowest bits first, none for n = 0
RECURSIVE PackedChunks(_)
PackedChunks(n) ==
    IF n = 0 THEN <<>> ELSE <<(n % 128) + 128>> \o PackedChunks(n \div 128)

\* PackedUInt21.serialize (lines 10-22): the most significant bit of the last
\* chunk is cleared; `chunks[-1]` of an empty list raises IndexError
PackedUInt21_serialize(n) ==
    LET chunks == PackedChunks(n)
    IN  IF chunks = <<>>
        THEN [error |-> "IndexError", bytes |-> <<>>]
        ELSE [error |-> None,
              bytes |-> [chunks EXCEPT ![Len(chunks)] = chunks[Len(chunks)] % 128]]

\* math.ceil(cls._bits / 8) for the 21 bits of the class (line 31)
MaxChunks == 3

\* the loop of deserialize (lines 28-37) from byte i on
RECURSIVE ChunksFrom(_, _, _)
ChunksFrom(data, i, chunks) ==
    IF i > Len(data) THEN [error |-> None, chunks |-> chunks]
    ELSE LET appended == Append(chunks, data[i] % 128)
         IN  IF Len(appended) > MaxChunks
             THEN [error |-> "ValueError", chunks |-> appended]
             ELSE IF data[i] < 128 THEN [error |-> None, chunks |-> appended]
             ELSE ChunksFrom(data, i + 1, appended)

\* lines 39-42: the chunks put together, the last one highest
RECURSIVE ValueOf(_)
ValueOf(chunks) ==
    IF chunks = <<>> THEN 0 ELSE Head(chunks) + 128 * ValueOf(Tail(chunks))

\* PackedUInt21.deserialize (lines 24-44)
PackedUInt21_deserialize(data) ==
    LET read == ChunksFrom(data, 1, <<>>)
    IN  IF read.error # None
        THEN [error |-> read.error, value |-> 0, rest |-> <<>>]
        ELSE [error |-> None, value |-> ValueOf(read.chunks),
              rest |-> SubSeq(data, Len(read.chunks) + 1, Len(data))]

\* values of one, two and three octets around the octet boundaries, the
\* largest value, and the values up to MaxValue
PackedValues == (0..MaxValue) \cup {16383, 16384, 16385, 2097150, 2097151}

\* what follows the packed integer in the data
RestOfData == {<<>>, <<0>>, <<128>>, <<85, 1>>}

-----------------------------------------------------------------------------
(* spinel.py: SpinelFrame.from_bytes and SpinelProtocol.data_received, fed  *)
(* a byte stream in pieces.                                                 *)

NoRx == [proto |-> None, stream |-> <<>>, rest |-> <<>>, buffer |-> <<>>,
         delivered |-> <<>>, calls |-> 0, attempts |-> 0, hung |-> FALSE]

RxAtRest == rx = NoRx

\* the members of CommandID (spinel_types.py:47-75)
CommandIDs == 0..23

\* SpinelFrame.from_bytes (spinel.py:90-100): the header byte holds the
\* transaction id in its low four bits and the flag in its high two; the
\* command id is a packed integer that must be a member of CommandID
SpinelFrame_from_bytes(data) ==
    LET packed == PackedUInt21_deserialize(SubSeq(data, 2, Len(data)))
        failed == [error |-> "ValueError", transaction_id |-> 0, command_id |-> 0,
                   data |-> <<>>]
    IN  IF data = <<>> THEN failed
        ELSE IF data[1] \div 64 # 2 THEN failed
        ELSE IF packed.error # None \/ packed.value \notin CommandIDs THEN failed
        ELSE [error |-> None, transaction_id |-> data[1] % 16,
              command_id |-> packed.value, data |-> packed.rest]

\* bytes.lstrip and bytes.partition with the flag byte
RECURSIVE LStripFlag(_)
LStripFlag(buffer) ==
    IF buffer # <<>> /\ Head(buffer) = FLAG THEN LStripFlag(Tail(buffer)) ELSE buffer

HasFlag(buffer) == \E i \in 1..Len(buffer) : buffer[i] = FLAG

FirstFlag(buffer) == CHOOSE i \in 1..Len(buffer) :
                        buffer[i] = FLAG /\ \A j \in 1..(i - 1) : buffer[j] # FLAG

PartitionFlag(buffer) ==
    IF HasFlag(buffer)
    THEN [chunk |-> SubSeq(buffer, 1, FirstFlag(buffer) - 1),
          rest |-> SubSeq(buffer, FirstFlag(buffer) + 1, Len(buffer))]
    ELSE [chunk |-> buffer, rest |-> <<>>]

\* the loop of data_received (lines 120-143): the buffer is cut at the first
\* flag, or taken whole when it holds no flag; an empty chunk and a chunk
\* that fails to decode are passed over, a decoded frame goes to
\* frame_received
RECURSIVE SpinelChunks(_, _)
SpinelChunks(buffer, delivered) ==
    IF buffer = <<>> THEN [buffer |-> buffer, delivered |-> delivered]
    ELSE LET part == PartitionFlag(buffer)
             hdlc == HDLCLiteFrame_from_bytes(part.chunk)
             frame == SpinelFrame_from_bytes(hdlc.data)
         IN  IF part.chunk = <<>> \/ hdlc.error # None \/ frame.error # None
             THEN SpinelChunks(part.rest, delivered)
             ELSE SpinelChunks(part.rest, Append(delivered, frame))

\* SpinelProtocol.data_received (lines 112-143)
Spinel_data_received(buffer, data) ==
    LET stripped == LStripFlag(buffer \o data)
    IN  IF ~HasFlag(stripped) THEN [buffer |-> stripped, delivered |-> <<>>]
        ELSE SpinelChunks(stripped, <<>>)

\* two Spinel frames: PROP_VALUE_GET with transaction id 1 and one byte of
\* data, PROP_VALUE_IS with transaction id 2
SpinelPayloads == {<<129, 2, 67>>, <<130, 6>>}

\* what a stream is made of: a frame between two flags, a frame that shares
\* its opening flag with what came before, and noise closed by a flag
SpinelPieces ==
    { HDLCLiteFrame_serialize(payload) : payload \in SpinelPayloads }
      \cup { Tail(HDLCLiteFrame_serialize(payload)) : payload \in SpinelPayloads }
      \cup { <<85, FLAG>> }

RECURSIVE StreamsOf(_, _)
StreamsOf(pieces, n) ==
    IF n = 0 THEN {<<>>}
    ELSE StreamsOf(pieces, n - 1)
           \cup { stream \o piece : stream \in StreamsOf(pieces, n - 1), piece \in pieces }

\* the next `k` bytes of the stream arrive in one call of data_received
SpinelDataReceived ==
    /\ rx.proto = "spinel"
    /\ \E k \in 1..Len(rx.rest) :
         LET done == Spinel_data_received(rx.buffer, SubSeq(rx.rest, 1, k))
         IN  rx' = [rx EXCEPT !.rest = SubSeq(rx.rest, k + 1, Len(rx.rest)),
                              !.buffer = done.buffer,
                              !.delivered = rx.delivered \o done.delivered,
                              !.calls = rx.calls + 1]
    /\ UNCHANGED <<orchVars, xmodemVars, reqVars, connVars, geckoVars, smVars, calcVars>>

-----------------------------------------------------------------------------
(* cpc.py: CPCTransportFrame, UnnumberedFrame and CPCProtocol.data_received *)
(* fed a byte stream in pieces.  The module cpc_types is taken from the     *)
(* specification: the flag byte 0x14, the frame types of the control byte,  *)
(* the system endpoint and the four commands of an unnumbered frame.        *)

CPC_FLAG == 20

UNNUMBERED == 3

EndpointIds == {0}

CMD_RESET == 1

PropertyCommandIds == {2, 3, 6}

\* CRC_CCITT (common.py:27-36): width 16, polynomial 0x1021, not reflected,
\* initial value 0; `n` bits shifted out of the register, the table of the 256
\* bytes, and the checksum of `data`
RECURSIVE CcittShift(_, _)
CcittShift(crc, n) ==
    IF n = 0 THEN crc
    ELSE IF crc >= 32768 THEN CcittShift(Xor((crc * 2) % 65536, 4129), n - 1)
    ELSE CcittShift((crc * 2) % 65536, n - 1)

CcittTable == [byte \in 0..255 |-> CcittShift(byte * 256, 8)]

RECURSIVE CcittFrom(_, _, _)
CcittFrom(crc, data, i) ==
    IF i > Len(data) THEN crc
    ELSE CcittFrom(Xor((crc % 256) * 256, CcittTable[Xor(crc \div 256, data[i])]),
                   data, i + 1)

\* crc16_ccitt (common.py:51-52)
crc16_ccitt(data) == CcittFrom(0, data, 1)

\* uint16_t.serialize
UInt16(n) == <<n % 256, n \div 256>>

\* data[:n] and data[n:] of Python for an n that may be negative
PyCut(data, n) ==
    IF n >= 0 THEN IF n > Len(data) THEN Len(data) ELSE n
    ELSE IF Len(data) + n < 0 THEN 0 ELSE Len(data) + n

\* UnnumberedFrame.to_bytes (cpc.py:104-112) on the bytes of the command
UnnumberedFrame_to_bytes(command_id, command_seq, payload) ==
    <<command_id, command_seq>> \o UInt16(Len(payload)) \o payload

\* the payload's from_bytes (lines 37-44, 55-63): a property command holds a
\* property id, a reset command nothing or one status byte
CommandPayloadError(command_id, payload) ==
    IF command_id = CMD_RESET
    THEN IF Len(payload) > 1 THEN "AssertionError" ELSE None
    ELSE IF payload = <<>> \/ PackedUInt21_deserialize(payload).error # None
    THEN "ValueError" ELSE None

\* UnnumberedFrame.from_bytes (lines 83-102)
UnnumberedFrameError(data) ==
    IF Len(data) < 4 THEN "ValueError"
    ELSE IF data[1] \notin PropertyCommandIds \cup {CMD_RESET} THEN "ValueError"
    ELSE IF Len(data) - 4 < data[3] + 256 * data[4] THEN "ValueError"
    ELSE IF Len(data) - 4 > data[3] + 256 * data[4] THEN "ValueError"
    ELSE CommandPayloadError(data[1], SubSeq(data, 5, Len(data)))

\* CPCTransportFrame.serialize (lines 122-138) on the bytes of the payload
CPCTransportFrame_serialize(endpoint, control, payload) ==
    LET header == <<CPC_FLAG, endpoint>> \o UInt16(Len(payload) + 2) \o <<control>>
    IN  header \o UInt16(crc16_ccitt(header)) \o payload \o UInt16(crc16_ccitt(payload))

\* CPCTransportFrame.frame_type (lines 183-189)
frame_type(control) == IF control \div 64 = 0 THEN 1 ELSE control \div 64

\* CPCTransportFrame.deserialize (lines 140-181) with parse_subframe (lines
\* 17-24): the error raised, or the frame and the bytes after it
CPCTransportFrame_deserialize(data) ==
    LET failed(error) == [error |-> error, frame |-> <<>>, rest |-> data]
        length == data[3] + 256 * data[4]
        control == data[5]
        body == SubSeq(data, 8, Len(data))
        cut == PyCut(body, length - 2)
        payload == SubSeq(body, 1, cut)
        after == SubSeq(body, cut + 1, Len(body))
    IN  IF Len(data) < 7 THEN failed("BufferTooShort")
        ELSE IF data[1] # CPC_FLAG THEN failed("ValueError")
        ELSE IF data[2] \notin EndpointIds THEN failed("ValueError")
        ELSE IF crc16_ccitt(SubSeq(data, 1, 5)) # data[6] + 256 * data[7]
        THEN failed("ValueError")
        ELSE IF Len(body) < length THEN failed("BufferTooShort")
        ELSE IF Len(after) < 2 THEN failed("ValueError")
        ELSE IF crc16_ccitt(payload) # after[1] + 256 * after[2] THEN failed("ValueError")
        ELSE IF frame_type(control) # UNNUMBERED THEN failed("ValueError")
        ELSE IF UnnumberedFrameError(payload) # None
        THEN failed(UnnumberedFrameError(payload))
        ELSE [error |-> None,
              frame |-> <<[endpoint |-> data[2], control |-> control,
                           command_id |-> payload[1], command_seq |-> payload[2],
                           payload |-> SubSeq(payload, 5, Len(payload))]>>,
              rest |-> SubSeq(after, 3, Len(after))]

\* self._buffer[self._buffer.find(bytes([FLAG])):] (lines 282-284): find gives
\* -1 when the buffer holds no flag
FromFlag(buffer) ==
    IF \E i \in 1..Len(buffer) : buffer[i] = CPC_FLAG
    THEN SubSeq(buffer, CHOOSE i \in 1..Len(buffer) :
                           /\ buffer[i] = CPC_FLAG
                           /\ \A j \in 1..(i - 1) : buffer[j] # CPC_FLAG,
                Len(buffer))
    ELSE SubSeq(buffer, Len(buffer), Len(buffer))

\* the loop of data_received (lines 275-287).  The loop's state is the
\* buffer, so an attempt that fails and leaves the buffer as it was is
\* repeated for ever: `hung`.  An error that is neither BufferTooShort nor
\* ValueError leaves the handler: `raised`.
RECURSIVE CpcLoop(_, _, _)
CpcLoop(buffer, delivered, attempts) ==
    LET done(hung, raised) ==
            [buffer |-> buffer, delivered |-> delivered, attempts |-> attempts,
             hung |-> hung, raised |-> raised]
        try == CPCTransportFrame_deserialize(buffer)
    IN  IF buffer = <<>> THEN done(FALSE, None)
        ELSE IF try.error = None
        THEN CpcLoop(try.rest, delivered \o try.frame, attempts + 1)
        ELSE IF try.error = "BufferTooShort"
        THEN [done(FALSE, None) EXCEPT !.attempts = attempts + 1]
        ELSE IF try.error # "ValueError"
        THEN [done(FALSE, try.error) EXCEPT !.attempts = attempts + 1]
        ELSE IF FromFlag(buffer) = buffer
        THEN [done(TRUE, None) EXCEPT !.attempts = attempts + 1]
        ELSE CpcLoop(FromFlag(buffer), delivered, attempts + 1)

\* a reset command answered on the system endpoint in an unnumbered
\* poll/final frame
GoodFrames ==
    { CPCTransportFrame_serialize(0, 196, UnnumberedFrame_to_bytes(CMD_RESET, 1, <<0>>)) }

\* the bytes of `frame` with byte i changed
Corrupted(frame, i) == [frame EXCEPT ![i] = (frame[i] + 1) % 256]

\* bytes that fail validation: a byte that is not the flag, a frame with a bad
\* header checksum, one with a bad payload checksum, a supervisory frame, and
\* an unnumbered frame with a byte after its payload
BadPieces ==
    LET reset == UnnumberedFrame_to_bytes(CMD_RESET, 1, <<0>>)
        good == CPCTransportFrame_serialize(0, 196, reset)
    IN  { <<0>>,
          Corrupted(good, 6),
          Corrupted(good, Len(good)),
          CPCTransportFrame_serialize(0, 128, reset),
          CPCTransportFrame_serialize(0, 196, reset \o <<0>>) }

\* the next `k` bytes of the stream arrive in one call of data_received; a
\* handler that never returns takes no further call
CpcDataReceived ==
    /\ rx.proto = "cpc"
    /\ ~rx.hung
    /\ \E k \in 1..Len(rx.rest) :
         LET done == CpcLoop(rx.buffer \o SubSeq(rx.rest, 1, k), <<>>, 0)
         IN  rx' = [rx EXCEPT !.rest = SubSeq(rx.rest, k + 1, Len(rx.rest)),
                              !.buffer = done.buffer,
                              !.delivered = rx.delivered \o done.delivered,
                              !.calls = rx.calls + 1,
                              !.attempts = done.attempts,
                              !.hung = done.hung]
    /\ UNCHANGED <<orchVars, xmodemVars, reqVars, connVars, geckoVars, smVars, calcVars>>

-----------------------------------------------------------------------------
(* Calls of the pure functions: `calc` holds the function's name and the    *)
(* arguments of a call, and its result once the call was made.              *)

NoResult == <<>>

NoCall == [fn |-> None, args |-> <<>>, ret |-> NoResult]

CalcAtRest == calc = NoCall

-----------------------------------------------------------------------------
(* The Flasher used through its API, on a Flasher as constructed (lines     *)
(* 73-92): probe_app_type and then enter_bootloader, as the commands call   *)
(* them, or enter_bootloader alone.                                         *)

NoMetadata ==
    [present |-> FALSE, fw_type |-> None, baudrate |-> None,
     ezsp_version |-> None, ot_rcp_version |-> None, sdk_version |-> None]

IdleCmd ==
    [pc |-> "idle", metadata |-> NoMetadata, force |-> FALSE,
     ensure_exact_version |-> FALSE, allow_downgrades |-> FALSE,
     allow_cross_flashing |-> FALSE, result |-> None]

InitHist ==
    [attempts |-> <<>>, resets |-> 0, probe_calls |-> 0, run_selected |-> FALSE,
     baud_probe |-> FALSE, entered |-> None, enter_outcome |-> None,
     enter_sent |-> None, eb_calls |-> 0,
     entry_app_type |-> None, entry_bootloader_baudrate |-> None,
     api |-> "constructed", uploaded |-> FALSE,
     probe_entry |-> <<None, None, None>>]

\* probe orders: the default, the bootloader alone, a reordered subset, and the
\* order put_first leaves for a BOOTLOADER image (the bootloader listed twice)
ProbeMethodConfigs ==
    { <<GECKO_BOOTLOADER, CPC, EZSP, SPINEL>>,
      <<GECKO_BOOTLOADER>>,
      <<SPINEL, GECKO_BOOTLOADER, CPC>>,
      <<GECKO_BOOTLOADER, GECKO_BOOTLOADER, CPC, EZSP, SPINEL>> }

BaudList(n) == SubSeq(DefaultCpcBauds, 1, n)

\* baud-rate lists: the bootloader's and CPC's of 1..MaxBauds rates, EZSP and
\* Spinel with their defaults
BaudrateConfigs ==
    { [m \in ApplicationType |->
          CASE m = GECKO_BOOTLOADER -> BaudList(g)
            [] m = CPC -> BaudList(c)
            [] m = EZSP -> <<"115200">>
            [] m = SPINEL -> <<"460800">>] : g \in 1..MaxBauds, c \in 1..MaxBauds }

InitFlasher ==
    /\ probe_methods \in ProbeMethodConfigs
    /\ baudrates \in BaudrateConfigs
    /\ app_type = None
    /\ app_version = None
    /\ app_baudrate = None
    /\ bootloader_baudrate = None
    /\ probe = IdleProbe
    /\ eb = IdleEb
    /\ cmd = IdleCmd
    /\ hist = InitHist
    /\ xm = IdleXm /\ transport = IdleTransport /\ xlog = InitXlog
    /\ client = NewClient("cpc", 0) /\ call = IdleCall /\ rlog = InitRlog
    /\ ConnAtRest
    /\ GeckoAtRest /\ SmAtRest /\ CalcAtRest /\ RxAtRest

\* no call is running: the caller makes its next call
ApiIdle ==
    /\ cmd.pc = "idle"
    /\ eb.pc = "idle"
    /\ probe.pc \in {"idle", "returned", "raised"}

\* flasher.probe_app_type(yellow_gpio_reset=..., sonoff_reset=...)
ApiProbeAppType ==
    /\ ApiIdle
    /\ hist.api = "constructed"
    /\ \E yellow \in BOOLEAN, sonoff \in BOOLEAN :
         /\ probe' = ProbeCall(probe_methods, yellow, sonoff, "api")
         /\ hist' = [ResetOnCall(hist, yellow, sonoff) EXCEPT
                         !.api = "probe_app_type", !.probe_calls = 1, !.run_selected = FALSE]
    /\ eb' = IdleEb
    /\ UNCHANGED <<probe_methods, baudrates, app_type, app_version, app_baudrate,
                   bootloader_baudrate, cmd>>
    /\ UNCHANGED <<xmodemVars, reqVars, connVars, geckoVars, smVars, calcVars, rxVars>>

\* flasher.enter_bootloader()
ApiEnterBootloader ==
    /\ ApiIdle
    /\ hist.api \in {"constructed", "probe_app_type"}
    /\ eb' = EnterBootloaderCall("api")
    /\ hist' = [EnterHist(hist) EXCEPT !.api = "enter_bootloader"]
    /\ probe' = IdleProbe
    /\ UNCHANGED <<probe_methods, baudrates, app_type, app_version, app_baudrate,
                   bootloader_baudrate, cmd>>
    /\ UNCHANGED <<xmodemVars, reqVars, connVars, geckoVars, smVars, calcVars, rxVars>>

NextFlasher ==
    \/ ApiProbeAppType
    \/ ApiEnterBootloader
    \/ ProbeStep
    \/ EbStep

SpecFlasher == InitFlasher /\ [][NextFlasher]_vars

-----------------------------------------------------------------------------
(* common.py: put_first *)

InSeq(e, q) == \E i \in 1..Len(q) : q[i] = e

RECURSIVE Without(_, _)
Without(lst, elements) ==
    IF lst = <<>> THEN <<>>
    ELSE IF InSeq(Head(lst), elements) THEN Without(Tail(lst), elements)
    ELSE <<Head(lst)>> \o Without(Tail(lst), elements)

\* the elements put in front of the whole list
PutFirstKeepsAll(lst, elements) == elements \o lst

\* line 227: elements + [e for e in lst if e not in elements]
put_first(lst, elements) == elements \o Without(lst, elements)

-----------------------------------------------------------------------------
(* gbl.py: NabuCasaMetadata *)

\* get_public_version (line 66): the first of the versions that is set
get_public_version(metadata) ==
    IF metadata.ezsp_version # None THEN metadata.ezsp_version
    ELSE IF metadata.ot_rcp_version # None THEN metadata.ot_rcp_version
    ELSE metadata.sdk_version

\* the version fields of the images flashed: none, one, or several set
MetadataVersions ==
    { [ezsp_version |-> None, ot_rcp_version |-> None, sdk_version |-> None],
      [ezsp_version |-> "1.2", ot_rcp_version |-> None, sdk_version |-> "1"],
      [ezsp_version |-> None, ot_rcp_version |-> "1.3", sdk_version |-> "1"],
      [ezsp_version |-> None, ot_rcp_version |-> None, sdk_version |-> "1"],
      [ezsp_version |-> None, ot_rcp_version |-> None, sdk_version |-> "1.2-a"] }

\* the image's metadata as far as it is read before probing
MetadataHeads ==
    {NoMetadata} \cup
    { [NoMetadata EXCEPT !.present = TRUE, !.fw_type = t, !.baudrate = b] :
        t \in FirmwareImageType \cup {None}, b \in {None, "115200"} }

-----------------------------------------------------------------------------
(* flash.py: the flash command *)

\* lines 329-339; the image types are named as flash.py names them
RunningImageTypeName(type) ==
    CASE type = EZSP -> "ncp-uart-hw"
      [] type = SPINEL -> "ot-rcp"
      [] type = CPC -> "rcp-uart-802154"
      [] type = GECKO_BOOTLOADER -> None

running_image_type(type) ==
    IF RunningImageTypeName(type) = None THEN None
    ELSE LEGACY_FIRMWARE_TYPE_REMAPPING(RunningImageTypeName(type))

\* a cross-flash seen when the two types agree
SameTypeIsCrossFlashing(fw_type, running) ==
    fw_type # None /\ running # None /\ fw_type = running

\* lines 346-350
is_cross_flashing(fw_type, running) ==
    fw_type # None /\ running # None /\ fw_type # running

\* the checks without the early return for an installed version
NeverAlreadyInstalled(c) ==
    LET md == c.metadata
        fw_version == get_public_version(md)
        cross == is_cross_flashing(md.fw_type, running_image_type(app_type))
    IN  IF ~(~c.force /\ app_version # None /\ md.present) THEN "enter_bootloader"
        ELSE IF cross /\ ~c.allow_cross_flashing THEN "CrossFlash"
        ELSE IF cross THEN "enter_bootloader"
        ELSE IF md.baudrate # None /\ md.baudrate # app_baudrate THEN "enter_bootloader"
        ELSE IF fw_version = None THEN "AttributeError"
        ELSE IF c.ensure_exact_version /\ ~compatible_with(app_version, fw_version)
             THEN "enter_bootloader"
        ELSE IF ~c.allow_downgrades /\ VersionGt(app_version, fw_version)
             THEN "no_upgrade"
        ELSE "enter_bootloader"

\* the checks with allow_downgrades not looked at
DowngradesNeverAllowed(c) ==
    LET md == c.metadata
        fw_version == get_public_version(md)
        cross == is_cross_flashing(md.fw_type, running_image_type(app_type))
    IN  IF ~(~c.force /\ app_version # None /\ md.present) THEN "enter_bootloader"
        ELSE IF cross /\ ~c.allow_cross_flashing THEN "CrossFlash"
        ELSE IF cross THEN "enter_bootloader"
        ELSE IF md.baudrate # None /\ md.baudrate # app_baudrate THEN "enter_bootloader"
        ELSE IF fw_version = None THEN "AttributeError"
        ELSE IF compatible_with(app_version, fw_version) THEN "already_installed"
        ELSE IF c.ensure_exact_version /\ ~compatible_with(app_version, fw_version)
             THEN "enter_bootloader"
        ELSE IF VersionGt(app_version, fw_version) THEN "no_upgrade"
        ELSE "enter_bootloader"

\* the checks made whatever `force` is
ForceStillChecked(c) ==
    LET md == c.metadata
        fw_version == get_public_version(md)
        cross == is_cross_flashing(md.fw_type, running_image_type(app_type))
    IN  IF ~(app_version # None /\ md.present) THEN "enter_bootloader"
        ELSE IF cross /\ ~c.allow_cross_flashing THEN "CrossFlash"
        ELSE IF cross THEN "enter_bootloader"
        ELSE IF md.baudrate # None /\ md.baudrate # app_baudrate THEN "enter_bootloader"
        ELSE IF fw_version = None THEN "AttributeError"
        ELSE IF compatible_with(app_version, fw_version) THEN "already_installed"
        ELSE IF c.ensure_exact_version /\ ~compatible_with(app_version, fw_version)
             THEN "enter_bootloader"
        ELSE IF ~c.allow_downgrades /\ VersionGt(app_version, fw_version)
             THEN "no_upgrade"
        ELSE "enter_bootloader"

\* lines 341-392, after probing: "CrossFlash" (ClickException), "AttributeError"
\* (compatible_with called on a metadata without version), "already_installed"
\* and "no_upgrade" (the two early returns) or "enter_bootloader"
FlashDecision(c) ==
    LET md == c.metadata
        fw_version == get_public_version(md)
        cross == is_cross_flashing(md.fw_type, running_image_type(app_type))
    IN  IF ~(~c.force /\ app_version # None /\ md.present) THEN "enter_bootloader"
        ELSE IF cross /\ ~c.allow_cross_flashing THEN "CrossFlash"
        ELSE IF cross THEN "enter_bootloader"
        ELSE IF md.baudrate # None /\ md.baudrate # app_baudrate THEN "enter_bootloader"
        ELSE IF fw_version = None THEN "AttributeError"
        ELSE IF compatible_with(app_version, fw_version) THEN "already_installed"
        ELSE IF c.ensure_exact_version /\ ~compatible_with(app_version, fw_version)
             THEN "enter_bootloader"
        ELSE IF ~c.allow_downgrades /\ VersionGt(app_version, fw_version)
             THEN "no_upgrade"
        ELSE "enter_bootloader"

\* the default of --probe-method (lines 131-134): the members of ApplicationType
DefaultProbeMethods == <<GECKO_BOOTLOADER, CPC, EZSP, SPINEL>>

\* lines 275-319: the image is read; its fw_type and baudrate put the probe
\* method and the baud rate it names first, unless the command line gave them
\* (the probe order is taken as given on the command line when it is not the
\* default order);
\* lines 321-325: probe_app_type is called
FlashStart ==
    /\ cmd.pc = "idle"
    /\ probe.pc = "idle"
    /\ hist.api = "constructed"
    /\ \E md \in MetadataHeads, yellow \in BOOLEAN, sonoff \in BOOLEAN,
          baudrate_from_default \in BOOLEAN :
         LET typed == md.present /\ md.fw_type # None
             probe_method_from_default == probe_methods = DefaultProbeMethods
         IN  IF typed /\ md.fw_type \notin FwImageTypesWithApplication
             THEN /\ cmd' = [cmd EXCEPT !.pc = "failed", !.result = "KeyError",
                                        !.metadata = md]
                  /\ hist' = [hist EXCEPT !.api = "flash"]
                  /\ UNCHANGED <<probe_methods, baudrates, probe>>
             ELSE LET fw_app == FW_IMAGE_TYPE_TO_APPLICATION_TYPE(md.fw_type)
                      methods == IF typed /\ probe_method_from_default
                                 THEN put_first(probe_methods, <<GECKO_BOOTLOADER, fw_app>>)
                                 ELSE probe_methods
                      rates == IF typed /\ md.baudrate # None /\ baudrate_from_default
                               THEN [baudrates EXCEPT
                                        ![fw_app] = put_first(@, <<md.baudrate>>)]
                               ELSE baudrates
                  IN  /\ probe_methods' = methods
                      /\ baudrates' = rates
                      /\ cmd' = [cmd EXCEPT !.pc = "probing", !.metadata = md]
                      /\ probe' = ProbeCall(methods, yellow, sonoff, "flash")
                      /\ hist' = [ResetOnCall(hist, yellow, sonoff) EXCEPT !.api = "flash"]
    /\ UNCHANGED <<app_type, app_version, app_baudrate, bootloader_baudrate, eb>>
    /\ UNCHANGED <<xmodemVars, reqVars, connVars, geckoVars, smVars, calcVars, rxVars>>

\* lines 326-327: NoRunningApp ends the command
FlashProbeFailed ==
    /\ cmd.pc = "probing"
    /\ probe.caller = "flash"
    /\ probe.pc = "raised"
    /\ cmd' = [cmd EXCEPT !.pc = "failed", !.result = probe.error]
    /\ probe' = IdleProbe
    /\ UNCHANGED <<probe_methods, baudrates, app_type, app_version, app_baudrate,
                   bootloader_baudrate, eb, hist>>
    /\ UNCHANGED <<xmodemVars, reqVars, connVars, geckoVars, smVars, calcVars, rxVars>>

\* lines 329-392: the checks of versions and image types, and the call of
\* enter_bootloader when they pass
FlashPolicy ==
    /\ cmd.pc = "probing"
    /\ probe.caller = "flash"
    /\ probe.pc = "returned"
    /\ \E force \in BOOLEAN, exact \in BOOLEAN, downgrades \in BOOLEAN, cross \in BOOLEAN,
          versions \in MetadataVersions :
         LET md == IF cmd.metadata.present
                   THEN [cmd.metadata EXCEPT !.ezsp_version = versions.ezsp_version,
                                             !.ot_rcp_version = versions.ot_rcp_version,
                                             !.sdk_version = versions.sdk_version]
                   ELSE cmd.metadata
             c == [cmd EXCEPT !.metadata = md, !.force = force,
                              !.ensure_exact_version = exact,
                              !.allow_downgrades = downgrades,
                              !.allow_cross_flashing = cross]
             decision == FlashDecision(c)
         IN  /\ cmd.metadata.present \/ versions = CHOOSE v \in MetadataVersions : TRUE
             /\ IF decision = "enter_bootloader"
                THEN /\ cmd' = [c EXCEPT !.pc = "enter_bootloader"]
                     /\ eb' = EnterBootloaderCall("flash")
                     /\ hist' = EnterHist(hist)
                ELSE /\ cmd' = [c EXCEPT
                          !.pc = IF decision \in {"already_installed", "no_upgrade"}
                                 THEN "returned" ELSE "failed",
                          !.result = decision]
                     /\ hist' = [hist EXCEPT !.attempts = <<>>, !.resets = 0]
                     /\ UNCHANGED eb
    /\ probe' = IdleProbe
    /\ UNCHANGED <<probe_methods, baudrates, app_type, app_version, app_baudrate,
                   bootloader_baudrate>>
    /\ UNCHANGED <<xmodemVars, reqVars, connVars, geckoVars, smVars, calcVars, rxVars>>

\* line 392: enter_bootloader raised
FlashEnterFailed ==
    /\ cmd.pc = "enter_bootloader"
    /\ eb.pc = "raised"
    /\ cmd' = [cmd EXCEPT !.pc = "failed", !.result = eb.error]
    /\ eb' = IdleEb
    /\ UNCHANGED <<probe_methods, baudrates, app_type, app_version, app_baudrate,
                   bootloader_baudrate, probe, hist>>
    /\ UNCHANGED <<xmodemVars, reqVars, connVars, geckoVars, smVars, calcVars, rxVars>>

\* flash_firmware (flasher.py:307-326) as the command calls it (lines 405-416):
\* the bootloader is opened at bootloader_baudrate and probed, the image is
\* uploaded and the application run; "UploadError" stands for every failure
\* of the upload, "NoFirmwareError" for the menu reappearing after the run
FlashFirmwareOutcomes ==
    {"ok", "TimeoutError", "UploadError", "NoFirmwareError"}

FlashFirmware ==
    /\ cmd.pc = "enter_bootloader"
    /\ eb.pc = "returned"
    /\ \E outcome \in FlashFirmwareOutcomes :
         /\ cmd' = [cmd EXCEPT !.pc = IF outcome = "ok" THEN "returned" ELSE "failed",
                               !.result = IF outcome = "ok" THEN "flashed" ELSE outcome]
         /\ hist' = [hist EXCEPT !.uploaded = outcome # "TimeoutError"]
    /\ eb' = IdleEb
    /\ UNCHANGED <<probe_methods, baudrates, app_type, app_version, app_baudrate,
                   bootloader_baudrate, probe>>
    /\ UNCHANGED <<xmodemVars, reqVars, connVars, geckoVars, smVars, calcVars, rxVars>>

\* the probe order of the command line: its default, or one given on it
FlashMethodConfigs == { DefaultProbeMethods, <<EZSP, GECKO_BOOTLOADER>> }

InitFlash ==
    /\ probe_methods \in FlashMethodConfigs
    /\ baudrates = [m \in ApplicationType |->
                      CASE m = GECKO_BOOTLOADER -> <<"115200">>
                        [] m = CPC -> BaudList(MaxBauds)
                        [] m = EZSP -> <<"115200">>
                        [] m = SPINEL -> <<"460800">>]
    /\ app_type = None
    /\ app_version = None
    /\ app_baudrate = None
    /\ bootloader_baudrate = None
    /\ probe = IdleProbe
    /\ eb = IdleEb
    /\ cmd = IdleCmd
    /\ hist = InitHist
    /\ xm = IdleXm /\ transport = IdleTransport /\ xlog = InitXlog
    /\ client = NewClient("cpc", 0) /\ call = IdleCall /\ rlog = InitRlog
    /\ ConnAtRest
    /\ GeckoAtRest /\ SmAtRest /\ CalcAtRest /\ RxAtRest

NextFlash ==
    \/ FlashStart
    \/ FlashProbeFailed
    \/ FlashPolicy
    \/ FlashEnterFailed
    \/ FlashFirmware
    \/ ProbeStep
    \/ EbDispatch
    \/ EbCallBaudProbe
    \/ EbBaudProbeDone

SpecFlash == InitFlash /\ [][NextFlash]_vars

-----------------------------------------------------------------------------
(* The XMODEM sender and the request-response clients, each on its own *)

\* no transfer and no request is running
XmodemAtRest == xm = IdleXm /\ transport = IdleTransport /\ xlog = InitXlog

ClientAtRest == client = NewClient("cpc", 0) /\ call = IdleCall /\ rlog = InitRlog

FlasherAtRest ==
    /\ probe_methods = <<GECKO_BOOTLOADER, CPC, EZSP, SPINEL>>
    /\ baudrates = [m \in ApplicationType |-> <<"115200">>]
    /\ app_type = None
    /\ app_version = None
    /\ app_baudrate = None
    /\ bootloader_baudrate = None
    /\ probe = IdleProbe
    /\ eb = IdleEb
    /\ cmd = IdleCmd
    /\ hist = InitHist

InitXmodem == XmodemAtRest /\ ClientAtRest /\ FlasherAtRest /\ ConnAtRest /\ GeckoAtRest /\ SmAtRest /\ CalcAtRest /\ RxAtRest

NextXmodem ==
    \/ XmCall
    \/ XmReadUntilC
    \/ XmWrite
    \/ XmRead
    \/ XmFinally

SpecXmodem == InitXmodem /\ [][NextXmodem]_vars

\* the transfer with a device that also sends on its own and a caller that
\* can cancel
NextXmodemLease ==
    \/ XmCall
    \/ XmReadUntilC
    \/ XmWrite
    \/ XmRead
    \/ XmFinally
    \/ XmFeedData
    \/ XmCancel

SpecXmodemLease == InitXmodem /\ [][NextXmodemLease]_vars

\* a protocol object as constructed, or one whose counter is about to wrap
InitReq ==
    /\ client \in {NewClient("cpc", 0), NewClient("cpc", 255),
                   NewClient("spinel", 1), NewClient("spinel", 12),
                   NewClient("spinel", 13)}
    /\ call = IdleCall
    /\ rlog = InitRlog
    /\ XmodemAtRest
    /\ FlasherAtRest
    /\ ConnAtRest
    /\ GeckoAtRest /\ SmAtRest /\ CalcAtRest /\ RxAtRest

NextReq ==
    \/ ReqCall
    \/ ReqReturn
    \/ ReqTimeout
    \/ ReqSleepDone
    \/ CpcFrameReceived
    \/ SpinelFrameReceived

SpecReq == InitReq /\ [][NextReq]_vars

\* the clients in a task that an outer scope may cancel
NextReqCancel ==
    \/ NextReq
    \/ ReqCancel

SpecReqCancel == InitReq /\ [][NextReqCancel]_vars

\* the connections of a Flasher, from a Flasher as constructed
InitConn == FlasherAtRest /\ XmodemAtRest /\ ClientAtRest /\ ConnAtRest /\ GeckoAtRest /\ SmAtRest /\ CalcAtRest /\ RxAtRest

NextConn ==
    \/ ConnEnter
    \/ ConnCreated
    \/ ConnCreateFails
    \/ ConnConnected
    \/ ConnConnectTimeout
    \/ ConnExitBody
    \/ ConnPauseDone

SpecConn == InitConn /\ [][NextConn]_vars

\* a GeckoBootloaderProtocol object as constructed, and the calls made on it
InitSm ==
    /\ sm \in { NewStateMachine(initial) : initial \in States }
    /\ tasks = [t \in Tasks |-> IdleTask]
    /\ smlog = InitSmlog
    /\ FlasherAtRest /\ XmodemAtRest /\ ClientAtRest /\ ConnAtRest /\ GeckoAtRest
    /\ CalcAtRest /\ RxAtRest

NextSm ==
    \/ SmSetState
    \/ SmWaitForState
    \/ SmCancel
    \/ SmResume

SpecSm == InitSm /\ [][NextSm]_vars

\* a call with its arguments, not made yet, and the call made
Pending(args) == [fn |-> None, args |-> args, ret |-> NoResult]

Returned(fn, value) == [calc EXCEPT !.fn = fn, !.ret = <<value>>]

\* a.compatible_with(b), a == b, a < b and a > b on two Version objects
CallCompatibleWith ==
    /\ calc.fn = None
    /\ calc' = Returned("compatible_with", compatible_with(calc.args[1], calc.args[2]))
    /\ UNCHANGED <<orchVars, xmodemVars, reqVars, connVars, geckoVars, smVars, rxVars>>

CallVersionEq ==
    /\ calc.fn = None
    /\ calc' = Returned("__eq__", VersionEq(calc.args[1], calc.args[2]))
    /\ UNCHANGED <<orchVars, xmodemVars, reqVars, connVars, geckoVars, smVars, rxVars>>

CallVersionLt ==
    /\ calc.fn = None
    /\ calc' = Returned("__lt__", VersionLt(calc.args[1], calc.args[2]))
    /\ UNCHANGED <<orchVars, xmodemVars, reqVars, connVars, geckoVars, smVars, rxVars>>

\* HDLCLiteFrame(data).serialize(), and HDLCLiteFrame.from_bytes on what it
\* returned
CallHdlcSerialize ==
    /\ calc.fn = None
    /\ calc' = Returned("serialize", HDLCLiteFrame_serialize(calc.args[1]))
    /\ UNCHANGED <<orchVars, xmodemVars, reqVars, connVars, geckoVars, smVars, rxVars>>

CallHdlcFromBytes ==
    /\ calc.fn = "serialize"
    /\ calc' = [fn |-> "from_bytes", args |-> <<calc.args[1], calc.ret[1]>>,
                ret |-> <<HDLCLiteFrame_from_bytes(calc.ret[1])>>]
    /\ UNCHANGED <<orchVars, xmodemVars, reqVars, connVars, geckoVars, smVars, rxVars>>

\* put_first(lst, elements)
CallPutFirst ==
    /\ calc.fn = None
    /\ calc' = Returned("put_first", put_first(calc.args[1], calc.args[2]))
    /\ UNCHANGED <<orchVars, xmodemVars, reqVars, connVars, geckoVars, smVars, rxVars>>

CallVersionGt ==
    /\ calc.fn = None
    /\ calc' = Returned("__gt__", VersionGt(calc.args[1], calc.args[2]))
    /\ UNCHANGED <<orchVars, xmodemVars, reqVars, connVars, geckoVars, smVars, rxVars>>

\* PackedUInt21(n).serialize(), and deserialize on the octets it returned
\* followed by further data
CallPackedSerialize ==
    /\ calc.fn = None
    /\ calc' = Returned("PackedUInt21.serialize", PackedUInt21_serialize(calc.args[1]))
    /\ UNCHANGED <<orchVars, xmodemVars, reqVars, connVars, geckoVars, smVars, rxVars>>

CallPackedDeserialize ==
    /\ calc.fn = "PackedUInt21.serialize"
    /\ calc.ret[1].error = None
    /\ calc' = [fn |-> "PackedUInt21.deserialize",
                args |-> <<calc.args[1], calc.args[2], calc.ret[1].bytes>>,
                ret |-> <<PackedUInt21_deserialize(calc.ret[1].bytes \o calc.args[2])>>]
    /\ UNCHANGED <<orchVars, xmodemVars, reqVars, connVars, geckoVars, smVars, rxVars>>

OthersAtRest ==
    /\ FlasherAtRest /\ XmodemAtRest /\ ClientAtRest /\ ConnAtRest /\ GeckoAtRest
    /\ SmAtRest /\ RxAtRest

InitVersion ==
    /\ calc \in { Pending(<<a, b>>) : a \in TestVersionStrings, b \in TestVersionStrings }
    /\ OthersAtRest

NextVersion ==
    \/ CallCompatibleWith
    \/ CallVersionEq
    \/ CallVersionLt
    \/ CallVersionGt

SpecVersion == InitVersion /\ [][NextVersion]_vars

\* the lists of at most n application types
ListsUpTo(n) == UNION { [1..k -> ApplicationType] : k \in 0..n }

InitPutFirst ==
    /\ calc \in { Pending(<<lst, elements>>) :
                    lst \in ListsUpTo(MaxList), elements \in ListsUpTo(MaxElements) }
    /\ OthersAtRest

NextPutFirst == CallPutFirst

SpecPutFirst == InitPutFirst /\ [][NextPutFirst]_vars

InitHdlc ==
    /\ calc \in { Pending(<<payload>>) :
                    payload \in TestPayloads
                       \cup UNION { [1..k -> PayloadBytes] : k \in 0..MaxPayload } }
    /\ OthersAtRest

NextHdlc ==
    \/ CallHdlcSerialize
    \/ CallHdlcFromBytes

SpecHdlc == InitHdlc /\ [][NextHdlc]_vars

InitPacked ==
    /\ calc \in { Pending(<<n, rest>>) : n \in PackedValues, rest \in RestOfData }
    /\ OthersAtRest

NextPacked ==
    \/ CallPackedSerialize
    \/ CallPackedDeserialize

SpecPacked == InitPacked /\ [][NextPacked]_vars

InitSpinelRx ==
    /\ rx \in { [NoRx EXCEPT !.proto = "spinel", !.stream = stream, !.rest = stream] :
                  stream \in StreamsOf(SpinelPieces, MaxPieces) }
    /\ FlasherAtRest /\ XmodemAtRest /\ ClientAtRest /\ ConnAtRest /\ GeckoAtRest
    /\ SmAtRest /\ CalcAtRest

NextSpinelRx == SpinelDataReceived

SpecSpinelRx == InitSpinelRx /\ [][NextSpinelRx]_vars

InitCpcRx ==
    /\ rx \in { [NoRx EXCEPT !.proto = "cpc", !.stream = stream, !.rest = stream] :
                  stream \in StreamsOf(GoodFrames \cup BadPieces, MaxPieces) \ {<<>>} }
    /\ FlasherAtRest /\ XmodemAtRest /\ ClientAtRest /\ ConnAtRest /\ GeckoAtRest
    /\ SmAtRest /\ CalcAtRest

NextCpcRx == CpcDataReceived

SpecCpcRx == InitCpcRx /\ [][NextCpcRx]_vars

InitGecko == FlasherAtRest /\ XmodemAtRest /\ ClientAtRest /\ ConnAtRest /\ GeckoAtRest /\ SmAtRest /\ CalcAtRest /\ RxAtRest

NextGecko ==
    \/ GeckoCall
    \/ GeckoProbeDone
    \/ GeckoProbeTimeout
    \/ GeckoRunMenuSeen
    \/ GeckoRunDone
    \/ GeckoUploadSelected
    \/ GeckoUploadXmodem
    \/ GeckoXmodemDone
    \/ GeckoUploadDone
    \/ GeckoUploadMenuTimeout
    \/ GeckoUploadReturn
    \/ GeckoDataReceived
    \/ GeckoUploadReported

SpecGecko == InitGecko /\ [][NextGecko]_vars

-----------------------------------------------------------------------------
(* Claims about the Flasher *)

CurrentPairs == Pairs(probe.types, baudrates)

AttemptBefore(a, b) == a.mi < b.mi \/ (a.mi = b.mi /\ a.bi < b.bi)

\* C2: probe_app_type attempts the (method, baud) pairs in methods-major,
\* baudrates-minor order, each at most once; a timeout moves on to the next
\* pair (nothing but an already probed bootloader is passed over, and probing
\* ends without a match only when no pair is left); a non-bootloader probe that
\* returns a version is the last attempt, and app_type, app_version and
\* app_baudrate are that pair's method, the returned version and its baud.
C2_ProbeOrderAndStop ==
    probe.pc # "idle" =>
      LET A == hist.attempts
          n == Len(A)
      IN  /\ \A i \in 1..n : \A j \in 1..n : i < j => AttemptBefore(A[i], A[j])
          /\ \A k \in 1..n :
               /\ A[k].mi \in 1..Len(probe.types)
               /\ A[k].method = probe.types[A[k].mi]
               /\ A[k].bi \in 1..Len(baudrates[A[k].method])
               /\ A[k].baud = baudrates[A[k].method][A[k].bi]
          /\ \A mi \in 1..Len(probe.types) :
               \A bi \in 1..Len(baudrates[probe.types[mi]]) :
                 LET here == [mi |-> mi, bi |-> bi]
                     passed == IF n = 0 THEN FALSE
                               ELSE AttemptBefore(here, A[n])
                 IN  passed =>
                       \/ \E k \in 1..n : A[k].mi = mi /\ A[k].bi = bi
                       \/ /\ probe.types[mi] = GECKO_BOOTLOADER
                          /\ \E k \in 1..n : /\ AttemptBefore(A[k], here)
                                             /\ A[k].method = GECKO_BOOTLOADER
                                             /\ A[k].outcome # "timeout"
          /\ (n > 0 /\ A[n].outcome = "timeout" /\ probe.pc \in {"returned", "raised"})
               => \A mi \in 1..Len(probe.types) :
                    \A bi \in 1..Len(baudrates[probe.types[mi]]) :
                      AttemptBefore(A[n], [mi |-> mi, bi |-> bi])
                        => /\ probe.types[mi] = GECKO_BOOTLOADER
                           /\ probe.bootloader_probe.set
          /\ \A k \in 1..n :
               A[k].outcome = "version" =>
                 /\ A[k].method # GECKO_BOOTLOADER
                 /\ k = n
                 /\ probe.pc = "returned"
                 /\ app_type = A[k].method
                 /\ app_version = A[k].version
                 /\ app_baudrate = A[k].baud

\* a probe went past a timeout and a later application probe matched
C2_Witness ==
    /\ probe.pc = "returned"
    /\ Len(hist.attempts) >= 3
    /\ hist.attempts[1].outcome = "timeout"
    /\ hist.attempts[Len(hist.attempts)].outcome = "version"
    /\ app_type = CPC

LastAttempt(h) == h.attempts[Len(h.attempts)]

\* C3: a bootloader probe whose launch reports NoFirmware stops the probing
\* with app_type = GECKO_BOOTLOADER, app_version = the bootloader's version and
\* app_baudrate = bootloader_baudrate = the probed baud; an accepted launch
\* goes on to the next pair and records bootloader_baudrate only.
C3_BootloaderProbe ==
    [][ (/\ Len(hist'.attempts) = Len(hist.attempts) + 1
         /\ LastAttempt(hist').method = GECKO_BOOTLOADER)
        => LET a == LastAttempt(hist')
           IN  /\ a.outcome = "no_firmware" =>
                     /\ probe'.pc = "returned"
                     /\ app_type' = GECKO_BOOTLOADER
                     /\ app_version' = a.version
                     /\ app_baudrate' = a.baud
                     /\ bootloader_baudrate' = a.baud
               /\ a.outcome = "launched" =>
                     /\ probe'.pc = "loop"
                     /\ probe'.idx = probe.idx + 1
                     /\ bootloader_baudrate' = a.baud
                     /\ UNCHANGED <<app_type, app_version, app_baudrate>>
      ]_vars

\* the bootloader did not answer at its first baud rate and at the second
\* reported that it has no firmware to launch
C3_Witness ==
    /\ probe.pc = "returned"
    /\ Len(hist.attempts) = 2
    /\ LastAttempt(hist).outcome = "no_firmware"
    /\ app_type = GECKO_BOOTLOADER
    /\ app_baudrate = "115200"
    /\ bootloader_baudrate = "115200"

\* C4: when no pair is left, the reset is asserted again and the device marked
\* GECKO_BOOTLOADER with the recorded version and baud if a hardware reset was
\* requested and a bootloader probe was recorded; in every other case the call
\* fails with NoRunningApp.
C4_Exhausted ==
    [][ (/\ probe.pc = "loop"
         /\ probe.idx = Len(CurrentPairs)
         /\ probe' # probe)
        => IF (probe.yellow_gpio_reset \/ probe.sonoff_reset) /\ probe.bootloader_probe.set
           THEN /\ probe'.pc = "returned"
                /\ hist'.resets = hist.resets + 1
                /\ app_type' = GECKO_BOOTLOADER
                /\ app_version' = probe.bootloader_probe.version
                /\ app_baudrate' = probe.bootloader_probe.baudrate
                /\ bootloader_baudrate' = probe.bootloader_probe.baudrate
           ELSE /\ probe'.pc = "raised"
                /\ probe'.error = "NoRunningApp"
                /\ UNCHANGED <<app_type, app_version, app_baudrate, bootloader_baudrate>>
      ]_vars

\* the fallback was taken: every pair tried, the reset asserted twice
C4_Witness ==
    /\ probe.pc = "returned"
    /\ probe.idx = Len(CurrentPairs)
    /\ probe.sonoff_reset
    /\ hist.resets = 2
    /\ app_type = GECKO_BOOTLOADER
    /\ Len(hist.attempts) > 1

\* C5 as claimed: enter_bootloader returns with bootloader_baudrate known, and
\* a baud rate unknown on entry was discovered by the bootloader-only probe,
\* the run option never selected.
C5_AsClaimed ==
    eb.pc = "returned" =>
      /\ bootloader_baudrate # None
      /\ hist.entry_bootloader_baudrate = None => ~hist.run_selected

\* C5, amended: enter_bootloader returns with bootloader_baudrate known, and
\* when it was unknown on entry while the application type was known, it was
\* discovered by the bootloader-only probe, which is the call's only probe and
\* never selects the run option.
C5_BootloaderBaudrate ==
    eb.pc = "returned" =>
      /\ bootloader_baudrate # None
      /\ (hist.entry_bootloader_baudrate = None /\ hist.entry_app_type # None) =>
           /\ hist.baud_probe
           /\ hist.probe_calls = 1
           /\ ~hist.run_selected
           /\ \A k \in 1..Len(hist.attempts) :
                /\ hist.attempts[k].method = GECKO_BOOTLOADER
                /\ hist.attempts[k].outcome \in {"timeout", "not_run"}
           /\ hist.attempts # <<>>
           /\ bootloader_baudrate = LastAttempt(hist).baud

\* a running CPC application was sent to its bootloader, whose baud rate the
\* bootloader-only probe then discovered
C5_Witness ==
    /\ eb.pc = "returned"
    /\ hist.entry_app_type = CPC
    /\ hist.entry_bootloader_baudrate = None
    /\ hist.baud_probe
    /\ bootloader_baudrate # None

-----------------------------------------------------------------------------
(* Claims about the flash command *)

\* the step of the flash command that settles lines 341-392
PolicyStep == cmd.pc = "probing" /\ cmd'.pc \notin {"probing", "idle"} /\ probe.pc = "returned"

-----------------------------------------------------------------------------
(* Claims about the XMODEM sender *)

\* a packet is written to the transport; the receiver's answer is read
WriteStep == transport.out = <<>> /\ transport'.out # <<>>

ReadStep == transport.out # <<>> /\ transport'.out = <<>>

\* C6: send_xmodem128_crc writes nothing until a "C" was read; what it then
\* writes is, when k packets were answered with ACK so far, the block at
\* index k carrying number (k + 1) mod 256 while k is less than the number of
\* blocks, and EOT when k is the number of blocks
C6_BlocksInOrder ==
    /\ [](~xlog.c_read => (transport.out = <<>> /\ xlog.tx = 0))
    /\ [][ WriteStep =>
             LET k == xlog.acked
                 n == xm.data_len \div 128
             IN  /\ xlog.c_read
                 /\ k <= n
                 /\ k < n => transport'.out =
                               <<1, (k + 1) % 256, 255 - ((k + 1) % 256),
                                 <<128 * k, 128 * (k + 1)>> >>
                 /\ k = n => transport'.out = <<4>> ]_vars

\* the block at index 255 is on the wire with number 0
C6_Witness ==
    /\ xlog.acked = 255
    /\ Len(transport.out) = 4
    /\ transport.out[2] = 0
    /\ transport.out[4] = <<128 * 255, 128 * 256>>

\* C7: a NAK is followed by the same packet written again; no packet is
\* written more than max_failures + 1 times; the transfer fails with the
\* consecutive-failures error exactly on the NAK that is number
\* max_failures + 1 among those read since the last ACK
C7_NakRetransmits ==
    /\ [](xlog.tx <= xm.max_failures + 1)
    /\ [](xm.error = "ValueError: consecutive failures" <=>
            (xlog.naks = xm.max_failures + 1 /\ xlog.last_rsp = NAK))
    /\ [](xlog.naks <= xm.max_failures + 1)
    /\ [][ (ReadStep /\ xlog'.last_rsp = NAK /\ xlog'.naks <= xm.max_failures)
             => (xm'.pc = "write" /\ xm'.error = None) ]_vars
    /\ [][ (WriteStep /\ xlog.naks > 0)
             => (transport'.out = xlog.last_packet /\ xlog.last_rsp = NAK) ]_vars

\* the first block was acknowledged after a NAK, and the second was refused
\* three times with max_failures = 2
C7_Witness ==
    /\ xm.pc = "raised"
    /\ xm.error = "ValueError: consecutive failures"
    /\ xm.max_failures = 2
    /\ xlog.acked = 1
    /\ xlog.naks = 3
    /\ xlog.tx = 3

\* C8: a CAN read in answer to a block or to EOT fails the transfer with
\* ReceiverCancelled, a byte other than ACK, NAK and CAN with the
\* invalid-response error; once the transfer has failed nothing is written
C8_CancelAndInvalid ==
    /\ [][ ReadStep =>
             /\ xlog'.last_rsp = CAN =>
                  (xm'.pc = "finally" /\ xm'.error = "ReceiverCancelled")
             /\ xlog'.last_rsp \notin {ACK, NAK, CAN, NoByte} =>
                  (xm'.pc = "finally" /\ xm'.error = "ValueError: invalid response") ]_vars
    /\ [][ xm.error # None => (transport'.out = <<>> /\ xm'.error = xm.error) ]_vars
    /\ [](xm.error = "ReceiverCancelled" => xlog.last_rsp = CAN)

\* the EOT of a two-block image was answered with CAN
C8_Witness ==
    /\ xm.pc = "raised"
    /\ xm.error = "ReceiverCancelled"
    /\ xm.data_len = 2 * BLOCK_SIZE
    /\ xlog.acked = 2
    /\ xlog.last_packet = EotPacket
    /\ transport.protocol = "gecko"

-----------------------------------------------------------------------------
(* Claims about the request-response clients *)

\* C9: CPC send_unnumbered_frame writes the frame with the request's
\* command_seq, at most retries + 1 times; when it returns, it returns a
\* received POLL_FINAL frame with that command_seq; it fails, with the
\* timeout, only after retries + 1 transmissions none of which was answered
\* by a matching frame, and after that many unanswered transmissions it does
\* not return
C9_CpcRetries ==
    client.kind = "cpc" =>
      /\ rlog.sent <= call.retries + 1
      /\ rlog.sent > 0 => rlog.last_sent = call.key
      /\ call.pc = "returned" =>
           /\ rlog.matched
           /\ call.result = [key |-> call.key, poll_final |-> TRUE]
      /\ call.pc = "raised" =>
           /\ call.error = "TimeoutError"
           /\ rlog.sent = call.retries + 1
           /\ ~rlog.matched
           /\ call.result = None

\* a request with command_seq 255 was answered after its fourth transmission,
\* and the counter has wrapped
C9_Witness ==
    /\ client.kind = "cpc"
    /\ call.pc = "returned"
    /\ call.key = 255
    /\ client.seq = 0
    /\ call.retries = 3
    /\ rlog.sent = 4

\* C10: in CPC send_unnumbered_frame and Spinel send_frame, once a frame with
\* the request's key was received the request is not written again
C10_NoSendAfterResponse ==
    [][ (InFlight /\ rlog.matched /\ rlog'.calls = rlog.calls)
          => rlog'.sent = rlog.sent ]_vars

\* C11: when CPC send_unnumbered_frame has exited (with a response, with the
\* timeout, with the assertion or cancelled) the pending map has no entry for
\* the request's command_seq; the step that makes the first transmission of a
\* request leaves its entry in the map
C11_CpcPendingRemoved ==
    [][ client.kind = "cpc" =>
          /\ call'.pc \in {"returned", "raised"}
                => call'.key \notin DOMAIN client'.pending
          /\ (rlog'.calls # rlog.calls /\ rlog'.sent >= 1)
                => call'.key \in DOMAIN client'.pending ]_vars

\* a CPC request was cancelled after its second transmission
C11_Witness ==
    /\ client.kind = "cpc"
    /\ call.pc = "raised"
    /\ call.error = "CancelledError"
    /\ rlog.sent = 2
    /\ ~rlog.matched

\* C12: when Spinel send_frame has exited, with wait_response true or false,
\* the pending map has no entry for the transaction id the call allocated
C12_SpinelPendingRemoved ==
    (client.kind = "spinel" /\ call.pc \in {"returned", "raised"})
        => call.key \notin DOMAIN client.pending

-----------------------------------------------------------------------------
(* Claims about the connections *)

\* C13: at every point of probe_app_type, enter_bootloader and flash_firmware
\* at most one serial connection created by the Flasher is open, whatever the
\* earlier connections ended with (normal exit, error, connect or probe
\* timeout)
C13_OneLiveConnection == conn.live <= 1

-----------------------------------------------------------------------------
(* Claims about the fields of the Flasher *)

\* C14: when probe_app_type has failed with NoRunningApp, app_type,
\* app_version and app_baudrate have the values they had when it was called;
\* a step of probe_app_type that assigns any of the three ends the call
\* with success
C14_FailedProbeKeepsFields ==
    /\ []((probe.pc = "raised" /\ probe.error = "NoRunningApp") =>
            <<app_type, app_version, app_baudrate>> = hist.probe_entry)
    /\ [][ (probe.pc = "loop" /\
            <<app_type, app_version, app_baudrate>>' #
                <<app_type, app_version, app_baudrate>>)
           => probe'.pc = "returned" ]_vars

\* the bootloader-only probe of enter_bootloader failed on a Flasher whose
\* application was known: the three fields still name the application
C14_Witness ==
    /\ probe.pc = "raised"
    /\ probe.error = "NoRunningApp"
    /\ probe.types = <<GECKO_BOOTLOADER>>
    /\ hist.probe_entry[1] \in {CPC, EZSP, SPINEL}
    /\ app_type = hist.probe_entry[1]
    /\ app_version \in DeviceVersions
    /\ Len(hist.attempts) > 0

-----------------------------------------------------------------------------
(* Claims about the checks of the flash command *)

\* the checks of versions apply after the policy step: not forced, the image
\* has metadata with a public version, and its type is not a cross-flash
VersionsChecked ==
    /\ PolicyStep
    /\ ~cmd'.force
    /\ cmd'.metadata.present
    /\ get_public_version(cmd'.metadata) # None
    /\ ~is_cross_flashing(cmd'.metadata.fw_type, running_image_type(app_type))

\* the image names no baud rate, or the one the application was found at
BaudrateAgrees ==
    cmd'.metadata.baudrate = None \/ cmd'.metadata.baudrate = app_baudrate

SkippedAs(result) ==
    /\ cmd'.pc = "returned"
    /\ cmd'.result = result
    /\ eb' = IdleEb
    /\ hist'.eb_calls = 0
    /\ ~hist'.uploaded

C16_ExactVersion ==
    [][ (VersionsChecked /\ cmd'.ensure_exact_version /\
         ~VersionEq(app_version, get_public_version(cmd'.metadata)))
          => (cmd'.pc = "enter_bootloader" /\ eb' = EnterBootloaderCall("flash")) ]_vars

-----------------------------------------------------------------------------
(* Claims about the Gecko bootloader client *)

\* C19: run_firmware called in IN_MENU writes the run option; it fails, with
\* NoFirmwareError, exactly when the parser enters IN_MENU again within the
\* window, and returns exactly when the window passes without that
C19_RunFirmware ==
    (gk.op = "run_firmware" /\ glog.called_in = "IN_MENU") =>
       /\ glog.sent = <<"2">>
       /\ gk.pc \in {"run_window", "returned", "raised"}
       /\ gk.pc = "raised" => (gk.error = "NoFirmwareError" /\ glog.menu_reentered)
       /\ gk.pc = "returned" => ~glog.menu_reentered

\* the menu came back after the run option: no firmware
C19_Witness ==
    /\ gk.op = "run_firmware"
    /\ glog.called_in = "IN_MENU"
    /\ gk.pc = "raised"
    /\ gk.error = "NoFirmwareError"
    /\ glog.menu_reentered
    /\ gecko.state = "IN_MENU"

\* C20: after a transfer that succeeded, when the bootloader reports
\* `Serial upload aborted` with a message, upload_firmware fails with
\* UploadError carrying that message; when it reports `Serial upload
\* complete`, upload_firmware succeeds
C20_UploadStatus ==
    (gk.op = "upload_firmware" /\ gk.pc \in {"returned", "raised"}
       /\ glog.xmodem = "ok" /\ glog.reported.set) =>
       IF glog.reported.status = "aborted"
       THEN /\ gk.pc = "raised"
            /\ gk.error = "UploadError"
            /\ gk.error_arg = glog.reported.message
       ELSE gk.pc = "returned"

-----------------------------------------------------------------------------
\* C21: upload_firmware writes option "1" only once its own ebl_info has
\* brought the parser to IN_MENU, hands the transport to the XMODEM sender
\* only in XMODEM_READY, and returns or raises UploadError only in IN_MENU,
\* entered during the wait of MENU_AFTER_UPLOAD_TIMEOUT or after the ebl_info
\* that follows its timeout
C21_UploadSequence ==
    [][ gk'.op = "upload_firmware" =>
          /\ (glog'.sent # glog.sent /\ glog'.sent[Len(glog'.sent)] = "1") =>
                /\ gk.pc = "upload_ebl_info"
                /\ glog.sent = EblInfoSent
                /\ gecko.state = "IN_MENU"
          /\ (gk'.pc = "upload_xmodem" /\ gk.pc # "upload_xmodem") =>
                /\ gecko.state = "XMODEM_READY"
                /\ glog.sent = EblInfoSent \o <<"1">>
          /\ (gk'.pc # gk.pc
                /\ (gk'.pc = "returned"
                      \/ (gk'.pc = "raised" /\ gk'.error = "UploadError"))) =>
                /\ gecko.state = "IN_MENU"
                /\ gecko'.state = "IN_MENU"
                /\ \/ gk.pc = "upload_wait_menu"
                        /\ glog.sent = EblInfoSent \o <<"1">>
                   \/ gk.pc = "upload_ebl_info_again"
                        /\ glog.sent = EblInfoSent \o <<"1">> \o EblInfoSent
    ]_vars

\* an upload ended after the menu had to be asked for with ebl_info
C21_Witness ==
    /\ gk.op = "upload_firmware"
    /\ gk.pc \in {"returned", "raised"}
    /\ gk.error \in {None, "UploadError"}
    /\ glog.sent = EblInfoSent \o <<"1">> \o EblInfoSent
    /\ gecko.state = "IN_MENU"

\* C22: enter_bootloader goes on after launchStandaloneBootloader timed out
\* and after it returned SUCCESS, raises RuntimeError for another status,
\* raises TimeoutError when the guard around the CPC or Spinel command
\* expires, and sends no command to a device already in the bootloader
C22_EnterBootloaderOutcomes ==
    [][ (eb.pc = "dispatch" /\ eb'.pc # "dispatch") =>
          LET outcome == hist'.enter_outcome
              proceeds == eb'.pc \in {"call_baud_probe", "returned"}
          IN  /\ hist'.entered = app_type
              /\ app_type = EZSP =>
                   /\ hist'.enter_sent = "ezsp.launchStandaloneBootloader"
                   /\ outcome \in {"timeout", "SUCCESS"} => proceeds
                   /\ outcome = "bad_status" =>
                        eb'.pc = "raised" /\ eb'.error = "RuntimeError"
              /\ app_type \in {CPC, SPINEL} =>
                   /\ hist'.enter_sent # None
                   /\ outcome = "timeout" =>
                        eb'.pc = "raised" /\ eb'.error = "TimeoutError"
                   /\ outcome = "ok" => proceeds
              /\ app_type = GECKO_BOOTLOADER =>
                   hist'.enter_sent = None /\ proceeds
    ]_vars

\* enter_bootloader returned although the EZSP application did not answer
C22_Witness ==
    /\ eb.pc = "returned"
    /\ hist.entered = EZSP
    /\ hist.enter_outcome = "timeout"

\* the Spinel counter after n more calls of send_frame
RECURSIVE CounterAfter(_, _)
CounterAfter(tid, n) ==
    IF n = 0 THEN tid ELSE CounterAfter(NextTransactionId(tid), n - 1)

C24_Progress ==
    /\ [][ xm'.has_callback =>
             LET total == xm'.data_len
                 reports == xlog'.progress # xlog.progress
                 first_c == ~xlog.c_read /\ xlog'.c_read
                 block_acked == xlog'.acked = xlog.acked + 1
                                  /\ xlog'.acked <= total \div 128
             IN  /\ first_c =>
                       /\ xlog.progress = <<>>
                       /\ xlog'.progress = <<0, total>>
                       /\ xlog'.tx = 0 /\ xlog'.acked = 0 /\ transport'.out = <<>>
                 /\ block_acked =>
                       /\ xlog'.progress = <<128 * xlog'.acked, total>>
                       /\ xlog.progress # <<>>
                       /\ xlog.progress[1] < xlog'.progress[1]
                 /\ reports => (first_c \/ block_acked) ]_vars
    /\ [](xm.has_callback =>
            /\ xlog.progress # <<>> =>
                 /\ xlog.c_read
                 /\ xlog.progress = <<128 * Min(xlog.acked, xm.data_len \div 128),
                                      xm.data_len>>
            /\ xlog.progress = <<xm.data_len, xm.data_len>> =>
                 xlog.acked >= xm.data_len \div 128
            /\ (xm.pc \in {"finally", "returned", "raised"}
                  /\ xm.data_len % 128 = 0
                  /\ xlog.acked >= xm.data_len \div 128) =>
                 xlog.progress = <<xm.data_len, xm.data_len>>)
    /\ [](~xm.has_callback => xlog.progress = <<>>)

\* both blocks of a 256-byte image were ACKed and (256, 256) was reported
C24_Witness ==
    /\ xm.has_callback
    /\ xm.data_len = 256
    /\ xlog.acked = 2
    /\ xlog.progress = <<256, 256>>

\* C27: assigning a declared state X resolves the future of every task that
\* waits for X; wait_for_state(X) in state X returns without registering a
\* future; assigning an undeclared state raises ValueError and leaves the
\* state as it was; a task that has resumed has no future registered
C27_StateMachine ==
    /\ [][ smlog'.tick # smlog.tick =>
             IF smlog'.arg \in States
             THEN /\ sm'.state = smlog'.arg
                  /\ \A t \in Tasks :
                       (/\ tasks[t].pc = "waiting"
                        /\ tasks[t].state = smlog'.arg
                        /\ sm.futures[FutureOf(sm, t)].status = "pending") =>
                          sm'.futures[FutureOf(sm', t)].status = "done"
             ELSE /\ smlog'.error = "ValueError"
                  /\ sm'.state = sm.state ]_vars
    /\ [][ \A t \in Tasks :
             (tasks'[t] # tasks[t] /\ tasks'[t].pc = "returned"
                /\ tasks[t].pc # "waiting") =>
                  /\ tasks'[t].at_once
                  /\ sm.state = tasks'[t].state
                  /\ sm' = sm ]_vars
    /\ [](\A t \in Tasks :
            tasks[t].pc \in {"idle", "returned", "cancelled"} => FutureOf(sm, t) = 0)

\* the comparable components of the arguments of the call
Ours == comparable_components(calc.args[1])

Theirs == comparable_components(calc.args[2])

\* C25: a.compatible_with(b) is true exactly when the comparable components
\* of a and b are equal at every position both have: so for a and a, for a
\* and a version that adds components to a, and for versions that differ in
\* non-comparable components only, and not when a shared position differs
C25_CompatibleWith ==
    calc.fn = "compatible_with" =>
        /\ calc.ret[1] =
             (\A i \in 1..Len(Ours) : i <= Len(Theirs) => Ours[i] = Theirs[i])
        /\ calc.args[1] = calc.args[2] => calc.ret[1]
        /\ (Len(Ours) <= Len(Theirs) /\ SubSeq(Theirs, 1, Len(Ours)) = Ours) =>
               calc.ret[1]
        /\ Ours = Theirs => calc.ret[1]
        /\ (\E i \in 1..Len(Ours) : i <= Len(Theirs) /\ Ours[i] # Theirs[i]) =>
               ~calc.ret[1]
        /\ calc.ret[1] = compatible_with(calc.args[2], calc.args[1])

\* a version was found compatible with one that has a component more, and
\* the two differ in a non-comparable component as well
C25_Witness ==
    /\ calc.fn = "compatible_with"
    /\ calc.args = <<"7.2.2.0", "7.2.2.0 build 190">>
    /\ calc.ret = <<TRUE>>

\* C26: a > b is true exactly when the comparable components of a are greater
\* than those of b in lexicographic order; hence never a > b together with
\* b > a, and never a > b for versions whose comparable components are equal
C26_Ordering ==
    calc.fn = "__gt__" =>
        /\ calc.ret[1] = TupleLt(Theirs, Ours)
        /\ ~(calc.ret[1] /\ VersionGt(calc.args[2], calc.args[1]))
        /\ Ours = Theirs => ~calc.ret[1]

\* is e one of `elements`
Among(e, elements) == \E i \in 1..Len(elements) : elements[i] = e

\* C28: put_first(lst, elements) is `elements` followed by the members of lst
\* that are not among them, in the order they have in lst; for the default
\* probe order and the application type of an OPENTHREAD_RCP image, put after
\* the bootloader, it is bootloader, Spinel, CPC, EZSP
C28_PutFirst ==
    calc.fn = "put_first" =>
        LET lst == calc.args[1]
            elements == calc.args[2]
            kept(e) == ~Among(e, elements)
        IN  /\ calc.ret[1] = elements \o SelectSeq(lst, kept)
            /\ (/\ lst = <<"GECKO_BOOTLOADER", "CPC", "EZSP", "SPINEL">>
                /\ elements = <<"GECKO_BOOTLOADER",
                                FW_IMAGE_TYPE_TO_APPLICATION_TYPE("OPENTHREAD_RCP")>>) =>
                  calc.ret[1] = <<"GECKO_BOOTLOADER", "SPINEL", "CPC", "EZSP">>

\* the default probe order with the bootloader and Spinel put first
C28_Witness ==
    /\ calc.fn = "put_first"
    /\ calc.args = <<DefaultProbeMethods, <<GECKO_BOOTLOADER, SPINEL>> >>
    /\ calc.ret = << <<GECKO_BOOTLOADER, SPINEL, CPC, EZSP>> >>

\* the frame the call serialized, and its bytes between the two flags
Frame == IF calc.fn = "serialize" THEN calc.ret[1] ELSE calc.args[2]

Inside == SubSeq(Frame, 2, Len(Frame) - 1)

\* the bytes of `inside` from position i on are the bytes of `plain` from
\* position j on, each of 0x7E, 0x7D, 0x11, 0x13, 0xF8 written as 0x7D and
\* 0x5E, 0x5D, 0x31, 0x33, 0xD8
RECURSIVE EscapedFrom(_, _, _, _)
EscapedFrom(inside, i, plain, j) ==
    IF j > Len(plain) THEN i = Len(inside) + 1
    ELSE IF plain[j] \in {126, 125, 17, 19, 248}
    THEN /\ i + 1 <= Len(inside)
         /\ inside[i] = 125
         /\ inside[i + 1] = CASE plain[j] = 126 -> 94
                              [] plain[j] = 125 -> 93
                              [] plain[j] = 17 -> 49
                              [] plain[j] = 19 -> 51
                              [] plain[j] = 248 -> 216
         /\ EscapedFrom(inside, i + 2, plain, j + 1)
    ELSE /\ i <= Len(inside)
         /\ inside[i] = plain[j]
         /\ EscapedFrom(inside, i + 1, plain, j + 1)

\* C29: from_bytes of a serialized frame returns the frame's payload; the
\* serialized frame starts and ends with 0x7E and has no 0x7E in between,
\* where the payload and its CRC stand with every special byte escaped
C29_HdlcRoundTrip ==
    /\ calc.fn = "from_bytes" =>
         calc.ret[1] = [error |-> None, data |-> calc.args[1]]
    /\ calc.fn \in {"serialize", "from_bytes"} =>
         /\ Len(Frame) >= 4
         /\ Frame[1] = 126
         /\ Frame[Len(Frame)] = 126
         /\ \A i \in 1..Len(Inside) : Inside[i] \notin {126, 17, 19, 248}
         /\ EscapedFrom(Inside, 1,
               calc.args[1] \o ToBytesLittle(crc16_kermit(calc.args[1])), 1)
         /\ calc.args[1] = <<129, 3, 54, 126, 125>> =>
               Frame = <<126, 129, 3, 54, 125, 94, 125, 93, 106, 249, 126>>
         /\ calc.args[1] = <<129, 3, 134, 42, 1>> =>
               Frame = <<126, 129, 3, 134, 42, 1, 84, 125, 94, 126>>

\* the spec's example frame was serialized and decoded again
C29_Witness ==
    /\ calc.fn = "from_bytes"
    /\ calc.args[1] = <<129, 3, 54, 126, 125>>
    /\ calc.args[2] = <<126, 129, 3, 54, 125, 94, 125, 93, 106, 249, 126>>
    /\ calc.ret[1].data = <<129, 3, 54, 126, 125>>

\* the octets the call serialized
Octets == IF calc.fn = "PackedUInt21.serialize" THEN calc.ret[1].bytes ELSE calc.args[3]

\* C30: serialize gives 1 to 3 octets, one octet for zero, which hold the
\* value's 7-bit groups lowest first with the most significant bit set on all
\* but the last; deserialize on the octets followed by further data returns
\* the value and the further data
C30_PackedUInt21 ==
    /\ calc.fn = "PackedUInt21.serialize" =>
         /\ calc.ret[1].error = None
         /\ Len(Octets) \in 1..3
         /\ calc.args[1] = 0 => Len(Octets) = 1
         /\ \A i \in 1..Len(Octets) :
              /\ Octets[i] % 128 = (calc.args[1] \div (128 ^ (i - 1))) % 128
              /\ Octets[i] >= 128 <=> i < Len(Octets)
         /\ calc.args[1] \div (128 ^ Len(Octets)) = 0
    /\ calc.fn = "PackedUInt21.deserialize" =>
         calc.ret[1] = [error |-> None, value |-> calc.args[1], rest |-> calc.args[2]]

\* the frames data_received delivers when the whole stream arrives in one call
FramesOf(stream) == Spinel_data_received(<<>>, stream).delivered

\* C31: once the stream has arrived, the frames delivered are those of the
\* stream whatever the pieces it arrived in; of two PROP_VALUE frames that
\* follow each other, each between its own flags, both are delivered
C31_SpinelStreamSplit ==
    (rx.proto = "spinel" /\ rx.rest = <<>>) =>
        /\ rx.delivered = FramesOf(rx.stream)
        /\ rx.stream = HDLCLiteFrame_serialize(<<129, 2, 67>>)
                         \o HDLCLiteFrame_serialize(<<130, 6>>) =>
              rx.delivered =
                << [error |-> None, transaction_id |-> 1, command_id |-> 2, data |-> <<67>>],
                   [error |-> None, transaction_id |-> 2, command_id |-> 6, data |-> <<>>] >>

\* the frame data_received hands over for the bytes of a well-formed frame
FrameOf(bytes) == CPCTransportFrame_deserialize(bytes).frame

\* C32: once bytes that fail validation and a well-formed frame after them
\* have arrived, the well-formed frame was delivered and nothing is left in
\* the buffer
C32_CpcResync ==
    \A bad \in BadPieces, good \in GoodFrames :
        (rx.proto = "cpc" /\ rx.stream = bad \o good /\ rx.rest = <<>>) =>
            /\ rx.delivered = FrameOf(good)
            /\ rx.buffer = <<>>

\* C33: data_received returns, after no more decode attempts than one for
\* each byte it holds and one more
C33_CpcDataReceivedReturns ==
    rx.proto = "cpc" =>
        /\ ~rx.hung
        /\ rx.attempts <= Len(rx.stream) + 1

\* C34: a response frame for a Spinel request whose future already has its
\* result is dropped, frame_received raising no error
C34_SpinelResolvedOnce ==
    client.kind = "spinel" => ~rlog.invalid_state

\* C35: run_firmware raises NoFirmwareError only when the device sent a menu
\* after the run option was written
C35_NoFirmwareOnlyAfterMenu ==
    (gk.op = "run_firmware" /\ gk.pc = "raised" /\ gk.error = "NoFirmwareError") =>
        glog.menu_after_run

\* upload_firmware's own steps: whatever the event loop runs once a wait has
\* ended or a timeout has passed (gecko_bootloader.py:68-143)
GeckoProgramStep ==
    \/ GeckoProbeDone
    \/ GeckoProbeTimeout
    \/ GeckoRunMenuSeen
    \/ GeckoRunDone
    \/ GeckoUploadSelected
    \/ GeckoUploadXmodem
    \/ GeckoXmodemDone
    \/ GeckoUploadDone
    \/ GeckoUploadMenuTimeout
    \/ GeckoUploadReturn

\* the event loop runs every ready task and every expired timer; the device
\* and the caller are under no obligation
SpecGeckoLive == SpecGecko /\ WF_vars(GeckoProgramStep)

\* C36: a call of upload_firmware eventually returns or raises, whatever the
\* device does, a device that goes silent included
C36_UploadTerminates ==
    (gk.op = "upload_firmware" /\ gk.pc \notin {"returned", "raised"})
        ~> (gk.pc \in {"returned", "raised"})

\* C37: when send_xmodem128_crc has exited, however it ended, the transport's
\* protocol is the one installed before the call and that protocol was given
\* the bytes left in the reader; a call refused for its length swapped nothing
\* and wrote nothing
C37_ProtocolRestored ==
    /\ (xm.pc \in {"returned", "raised"} /\ xm.error # "ValueError: length")
         => /\ xm.old_protocol = "gecko"
            /\ transport.protocol = xm.old_protocol
            /\ xlog.handed_back = xm.reader
    /\ (xm.pc = "raised" /\ xm.error = "ValueError: length")
         => /\ transport = IdleTransport
            /\ xm.old_protocol = None
            /\ xlog = InitXlog

C37_Witness ==
    /\ xm.pc = "raised"
    /\ xm.error = "CancelledError"
    /\ xlog.acked > 0
    /\ xlog.handed_back # <<>>
    /\ transport.protocol = "gecko"

\* the transitions data_received makes
DataDriven ==
    { <<"WAITING_FOR_MENU", "IN_MENU">>,
      <<"WAITING_XMODEM_READY", "XMODEM_READY">>,
      <<"WAITING_UPLOAD_DONE", "UPLOAD_DONE">> }

\* a step in which data_received runs: the transport delivers bytes while the
\* client's call stays where it is, or the XMODEM reader hands its bytes back
BytesReceived == gk' = gk \/ gk.pc = "upload_xmodem"

\* C38: the client starts in WAITING_FOR_MENU, and received bytes change the
\* state only from WAITING_FOR_MENU to IN_MENU, from WAITING_XMODEM_READY to
\* XMODEM_READY and from WAITING_UPLOAD_DONE to UPLOAD_DONE; in IN_MENU,
\* XMODEM_READY and UPLOAD_DONE they change nothing
C38_DataDrivenTransitions ==
    /\ gecko.state = "WAITING_FOR_MENU"
    /\ [][(BytesReceived /\ gecko'.state # gecko.state)
            => <<gecko.state, gecko'.state>> \in DataDriven]_vars

C38_Witness ==
    /\ gecko.state = "UPLOAD_DONE"
    /\ gk.pc = "upload_wait_done"
    /\ "MENU_1.2" \in {gecko.buffer[i] : i \in 1..Len(gecko.buffer)}

\* C39: with the device found in the bootloader and no application running
\* (app_type GECKO_BOOTLOADER), the flash command does not end on version
\* grounds, neither as already installed nor as a downgrade
C39_BootloaderVersionNotCompared ==
    (cmd.pc = "returned" /\ cmd.result \in {"already_installed", "no_upgrade"})
        => app_type # GECKO_BOOTLOADER

\* how often `e` occurs in the list
TimesIn(e, lst) == Cardinality({ i \in 1..Len(lst) : lst[i] = e })

\* C40: once the flash command has ordered the probe methods by the image's
\* metadata, the order holds every application type of the configured order
\* exactly once, whatever fw_type the metadata declares
C40_ProbeOrderHasEachOnce ==
    [][(cmd.pc = "idle" /\ cmd'.pc = "probing")
         => \A type \in ApplicationType :
               InSeq(type, probe_methods) => TimesIn(type, probe_methods') = 1]_vars

====
